---- MODULE Spec2Model ----
(***************************************************************************)
(* The GitHub access-token lifecycle of automate-pr: TokenManager          *)
(* (getToken, storeToken, refreshToken, executeRequest with its rate-limit *)
(* wait and backoff) over the CredentialVault, and the two device-flow     *)
(* clients' poll() loops.  Every async method is cut at its awaits: one    *)
(* action per synchronous stretch of code, so that the callers of one      *)
(* TokenManager interleave exactly where the event loop lets them.         *)
(***************************************************************************)
EXTENDS Integers, Sequences, FiniteSets, TLC

VARIABLES
  now,            \* Date.now(), in ms
  credentials,    \* CredentialVault.credentials: key -> stored string
  rateLimitInfo,  \* TokenManager.rateLimitInfo: <<>> (undefined) or <<RateLimitInfo>>
  lastRequest,    \* TokenManager.lastRequest
  backoffDelay,   \* TokenManager.backoffDelay
  call,           \* per caller: the async call it has in progress on the manager
  calls,          \* how many calls the callers have made so far
  flow            \* the GitHubDeviceFlow instance and its call in progress

vars ==
  <<now, credentials, rateLimitInfo, lastRequest, backoffDelay, call, calls, flow>>

----------------------------------------------------------------------------
(* Bounds of the model *)

StartTime == 1000000
TickMs == 1000
MaxTicks == 2
MaxBackoff == 4000
MaxCalls == 3
MaxRequests == 13
MaxFlowCalls == 2

Callers == {"c1", "c2"}

----------------------------------------------------------------------------
(* Optional values (undefined | v) are sequences of length 0 or 1; a JS     *)
(* object is a function from the names of its fields.                      *)

None == <<>>
Some(v) == <<v>>
Field(obj, f) == IF f \in DOMAIN obj THEN <<obj[f]>> ELSE <<>>
\* JS truthiness of an optional number: undefined and 0 are falsy
TruthyNum(o) == o # <<>> /\ o[1] # 0
\* JS truthiness of an optional string (the model's strings are non-empty)
TruthyStr(o) == o # <<>>

----------------------------------------------------------------------------
(* Program constants: TokenManager's statics *)

TOKEN_INFO_KEY == "github.token_info"
RATE_LIMIT_KEY == "github.rate_limit"
MIN_TOKEN_LIFETIME == 5 * 60 * 1000
DEFAULT_BACKOFF == 1000

----------------------------------------------------------------------------
(* Errors.  A thrown value carries what the code inspects: message,        *)
(* response.status, and for PRAutomatorError the type and the cause.       *)

PRAutomatorError(message, type, cause) ==
  [name |-> "PRAutomatorError", message |-> message, type |-> type,
   cause |-> cause, status |-> <<>>]

Error(message, status) ==
  [name |-> "Error", message |-> message, type |-> "", cause |-> <<>>,
   status |-> status]

\* String.prototype.includes over the messages of the model (case-sensitive)
Includes(message, sub) ==
  CASE sub = "rate limit" ->
         message \in {"rate limit exceeded", "API rate limit exceeded"}
    [] sub = "Unauthorized" ->
         message \in {"Unauthorized", "401 Unauthorized",
                      "Token revocation failed: Unauthorized"}
    [] OTHER -> FALSE

isRateLimitError(error) ==
  error.status = <<429>> \/ Includes(error.message, "rate limit")

isAuthError(error) ==
  error.status = <<401>> \/ Includes(error.message, "Unauthorized")

Value(v) == [kind |-> "value", value |-> v]
Thrown(e) == [kind |-> "error", error |-> e]

----------------------------------------------------------------------------
(* CredentialVault and JSON *)

\* JSON.stringify of an object whose fields are optional values: a field
\* that is undefined is left out
JSONstringify(obj) ==
  [kind |-> "json",
   obj |-> [f \in {g \in DOMAIN obj : obj[g] # <<>>} |-> obj[f][1]]]

\* JSON.parse: the object, or None when it throws
JSONparse(data) == IF data.kind = "json" THEN <<data.obj>> ELSE <<>>

Garbage == [kind |-> "text", obj |-> <<>>]

VaultGet(creds, key) == IF key \in DOMAIN creds THEN <<creds[key]>> ELSE <<>>
VaultSet(creds, key, value) == (key :> value) @@ creds

getStoredTokenInfo(creds) ==
  LET data == VaultGet(creds, TOKEN_INFO_KEY)
  IN  IF data = <<>> THEN <<>> ELSE JSONparse(data[1])

----------------------------------------------------------------------------
(* TokenManager: the synchronous pieces *)

\* storeToken as it would be if it merged the new fields into the record
\* already stored instead of replacing it
storeToken_Merging(creds, accessToken, expiresIn, refreshToken, t) ==
  LET previous == IF getStoredTokenInfo(creds) = <<>> THEN <<>>
                  ELSE [f \in DOMAIN getStoredTokenInfo(creds)[1] |->
                          <<getStoredTokenInfo(creds)[1][f]>>]
      tokenInfo ==
        [access_token |-> accessToken]
        @@ (IF TruthyNum(expiresIn)
              THEN [expires_at |-> <<t + expiresIn[1] * 1000>>] ELSE <<>>)
        @@ (IF TruthyStr(refreshToken)
              THEN [refresh_token |-> refreshToken] ELSE <<>>)
        @@ previous
  IN  VaultSet(creds, TOKEN_INFO_KEY, JSONstringify(tokenInfo))

\* storeToken as it would be if an expiresIn of 0 counted as given
storeToken_ZeroGiven(creds, accessToken, expiresIn, refreshToken, t) ==
  LET tokenInfo ==
        [access_token |-> accessToken]
        @@ (IF expiresIn # <<>>
              THEN [expires_at |-> <<t + expiresIn[1] * 1000>>] ELSE <<>>)
        @@ (IF TruthyStr(refreshToken)
              THEN [refresh_token |-> refreshToken] ELSE <<>>)
  IN  VaultSet(creds, TOKEN_INFO_KEY, JSONstringify(tokenInfo))

\* storeToken: the credentials after vault.set(TOKEN_INFO_KEY, ...) at time t
storeToken(creds, accessToken, expiresIn, refreshToken, t) ==
  LET tokenInfo ==
        [access_token |-> accessToken]
        @@ (IF TruthyNum(expiresIn)
              THEN [expires_at |-> <<t + expiresIn[1] * 1000>>] ELSE <<>>)
        @@ (IF TruthyStr(refreshToken)
              THEN [refresh_token |-> refreshToken] ELSE <<>>)
  IN  VaultSet(creds, TOKEN_INFO_KEY, JSONstringify(tokenInfo))

\* shouldRefreshToken as it would be without the 5 minute margin
shouldRefreshToken_NoMargin(tokenInfo, t) ==
  IF ~TruthyNum(Field(tokenInfo, "expires_at")) THEN FALSE
  ELSE t > tokenInfo.expires_at

\* shouldRefreshToken as it would be with >= for >
shouldRefreshToken_Inclusive(tokenInfo, t) ==
  IF ~TruthyNum(Field(tokenInfo, "expires_at")) THEN FALSE
  ELSE t + MIN_TOKEN_LIFETIME >= tokenInfo.expires_at

shouldRefreshToken(tokenInfo, t) ==
  IF ~TruthyNum(Field(tokenInfo, "expires_at")) THEN FALSE
  ELSE t + MIN_TOKEN_LIFETIME > tokenInfo.expires_at

----------------------------------------------------------------------------
(* A caller's call in progress.  pc names the await the call is suspended  *)
(* at (method_line); ctx names the await in executeRequest or              *)
(* updateRateLimitInfo that a nested getToken()/refreshToken() settles.    *)
(* log is the history of the call in progress: a record of what it did,    *)
(* read by the properties only.                                            *)

IdleCall ==
  [pc |-> "idle", op |-> "none", ctx |-> "none", tokenInfo |-> <<>>,
   token |-> <<>>, wakeAt |-> 0, result |-> <<>>, ret |-> <<>>,
   log |-> <<>>, checkedAt |-> 0, observed |-> FALSE, suspendedAt |-> <<>>]

\* The history is kept of the calls of one caller, the observed one; the
\* other callers run the same code beside it.
Observed == "c1"

NewCall(c, operation) ==
  [IdleCall EXCEPT !.op = operation, !.observed = (c = Observed)]

Log(rec, e) == IF rec.observed THEN [rec EXCEPT !.log = Append(@, e)] ELSE rec

\* the call settles: its promise resolves with a value or rejects
Return(rec, outcome) ==
  IF rec.observed
    THEN [rec EXCEPT !.pc = "idle", !.ret = <<outcome>>, !.wakeAt = 0]
    ELSE [IdleCall EXCEPT !.op = rec.op, !.ret = <<outcome>>]

Shared ==
  [credentials |-> credentials, rateLimitInfo |-> rateLimitInfo,
   lastRequest |-> lastRequest, backoffDelay |-> backoffDelay]

Apply(c, r) ==
  /\ call' = [call EXCEPT ![c] = r.call]
  /\ credentials' = r.sh.credentials
  /\ rateLimitInfo' = r.sh.rateLimitInfo
  /\ lastRequest' = r.sh.lastRequest
  /\ backoffDelay' = r.sh.backoffDelay

NoTokenError == PRAutomatorError("No token available", "AUTH_ERROR", <<>>)
NoRefreshTokenError ==
  PRAutomatorError("No refresh token available", "AUTH_ERROR", <<>>)
RefreshFailedError(cause) ==
  PRAutomatorError("Failed to refresh token", "AUTH_ERROR", <<cause>>)
RateLimitError(cause) ==
  PRAutomatorError("Rate limit exceeded", "RATE_LIMIT", <<cause>>)

\* refreshToken up to its fetch: the call suspended at the fetch, or the
\* error thrown before any request is made
refreshToken(rec, sh, tokenInfoArg) ==
  LET tokenInfo == IF tokenInfoArg = <<>>
                     THEN getStoredTokenInfo(sh.credentials)
                     ELSE tokenInfoArg
  IN  IF tokenInfo = <<>> \/ ~TruthyStr(Field(tokenInfo[1], "refresh_token"))
        THEN [kind |-> "error", error |-> NoRefreshTokenError]
        ELSE [kind |-> "pending",
              call |-> Log([rec EXCEPT !.pc = "refreshToken_152",
                                       !.tokenInfo = tokenInfo],
                           [ev |-> "refresh",
                            refresh_token |-> tokenInfo[1].refresh_token])]

\* catchBlock, but an error of neither class is wrapped before it is thrown
catchBlock_Wrapping(rec, sh, error) ==
  IF isRateLimitError(error)
    THEN [call |-> Return(Log(rec, [ev |-> "backoff",
                                    backoffDelay |-> sh.backoffDelay * 2]),
                          Thrown(RateLimitError(error))),
          sh |-> [sh EXCEPT !.backoffDelay = @ * 2]]
  ELSE IF isAuthError(error)
    THEN LET r == refreshToken([rec EXCEPT !.ctx = "executeRequest_104"],
                               sh, <<>>)
         IN  IF r.kind = "pending"
               THEN [call |-> r.call, sh |-> sh]
               ELSE [call |-> Return(rec, Thrown(r.error)), sh |-> sh]
  ELSE [call |-> Return(rec, Thrown(PRAutomatorError("Request failed",
                                                      "API_ERROR", <<error>>))),
        sh |-> sh]

\* catchBlock, but an auth error that starts a refresh doubles the delay too
catchBlock_DoubleOnAuth(rec, sh, error) ==
  IF isRateLimitError(error)
    THEN [call |-> Return(Log(rec, [ev |-> "backoff",
                                    backoffDelay |-> sh.backoffDelay * 2]),
                          Thrown(RateLimitError(error))),
          sh |-> [sh EXCEPT !.backoffDelay = @ * 2]]
  ELSE IF isAuthError(error)
    THEN LET r == refreshToken([rec EXCEPT !.ctx = "executeRequest_104"],
                               sh, <<>>)
         IN  IF r.kind = "pending"
               THEN [call |-> r.call, sh |-> [sh EXCEPT !.backoffDelay = @ * 2]]
               ELSE [call |-> Return(rec, Thrown(r.error)), sh |-> sh]
  ELSE [call |-> Return(rec, Thrown(error)), sh |-> sh]

\* executeRequest's catch block
catchBlock(rec, sh, error) ==
  IF isRateLimitError(error)
    THEN [call |-> Return(Log(rec, [ev |-> "backoff",
                                    backoffDelay |-> sh.backoffDelay * 2]),
                          Thrown(RateLimitError(error))),
          sh |-> [sh EXCEPT !.backoffDelay = @ * 2]]
  ELSE IF isAuthError(error)
    THEN LET r == refreshToken([rec EXCEPT !.ctx = "executeRequest_104"],
                               sh, <<>>)
         IN  IF r.kind = "pending"
               THEN [call |-> r.call, sh |-> sh]
               ELSE [call |-> Return(rec, Thrown(r.error)), sh |-> sh]
  ELSE [call |-> Return(rec, Thrown(error)), sh |-> sh]

\* Settle, but the retry after the refresh reuses the token of the first
\* invocation
Settle_StaleRetry(rec, sh, outcome) ==
  CASE rec.ctx = "top" -> [call |-> Return(rec, outcome), sh |-> sh]
    [] rec.ctx = "executeRequest_82" ->
         IF outcome.kind = "value"
           THEN [call |-> [rec EXCEPT !.pc = "executeRequest_83",
                                      !.token = outcome.value],
                 sh |-> sh]
           ELSE catchBlock(rec, sh, outcome.error)
    [] rec.ctx = "executeRequest_104" ->
         IF outcome.kind = "value"
           THEN [call |-> [rec EXCEPT !.pc = "executeRequest_105"],
                 sh |-> sh]
           ELSE [call |-> Return(rec, outcome), sh |-> sh]
    [] rec.ctx = "updateRateLimitInfo_195" ->
         IF outcome.kind = "value"
           THEN [call |-> [rec EXCEPT !.pc = "updateRateLimitInfo_192",
                                      !.token = outcome.value],
                 sh |-> sh]
           ELSE [call |-> Return(rec, Value(rec.result)), sh |-> sh]

\* what the code awaiting a getToken()/refreshToken() does with its outcome
Settle(rec, sh, outcome) ==
  CASE rec.ctx = "top" -> [call |-> Return(rec, outcome), sh |-> sh]
    [] rec.ctx = "executeRequest_82" ->
         IF outcome.kind = "value"
           THEN [call |-> [rec EXCEPT !.pc = "executeRequest_83",
                                      !.token = outcome.value],
                 sh |-> sh]
           ELSE catchBlock(rec, sh, outcome.error)
    [] rec.ctx = "executeRequest_104" ->
         IF outcome.kind = "value"
           THEN [call |-> [rec EXCEPT !.pc = "executeRequest_105",
                                      !.token = outcome.value],
                 sh |-> sh]
           ELSE [call |-> Return(rec, outcome), sh |-> sh]
    [] rec.ctx = "updateRateLimitInfo_195" ->
         IF outcome.kind = "value"
           THEN [call |-> [rec EXCEPT !.pc = "updateRateLimitInfo_192",
                                      !.token = outcome.value],
                 sh |-> sh]
           ELSE [call |-> Return(rec, Value(rec.result)), sh |-> sh]

\* getToken up to its first decision: the stored record is read
getToken(rec, sh, context) ==
  LET tokenInfo == getStoredTokenInfo(sh.credentials)
      r == [rec EXCEPT !.ctx = context]
  IN  IF tokenInfo = <<>>
        THEN Settle(r, sh, Thrown(NoTokenError))
        ELSE [call |-> [r EXCEPT !.pc = "getToken_43",
                                 !.tokenInfo = tokenInfo],
              sh |-> sh]

\* getToken from the expiry check on, at time t
getToken_43(rec, sh, t) ==
  LET r0 == [rec EXCEPT !.checkedAt = t]
  IN  IF shouldRefreshToken(rec.tokenInfo[1], t)
        THEN LET r == refreshToken(r0, sh, rec.tokenInfo)
             IN  IF r.kind = "pending"
                   THEN [call |-> r.call, sh |-> sh]
                   ELSE Settle(r0, sh, Thrown(r.error))
        ELSE Settle(r0, sh, Value(Field(rec.tokenInfo[1], "access_token")))

\* refreshToken's settling as it would be if a failed exchange removed the
\* stored record
refreshToken_settle_Clearing(rec, sh, response, t) ==
  IF response.kind = "json" /\ response.ok
    THEN LET data == response.data
             sh2 == [sh EXCEPT !.credentials =
                       storeToken(@, Field(data, "access_token"),
                                  Field(data, "expires_in"),
                                  Field(data, "refresh_token"), t)]
         IN  Settle(Log(rec, [ev |-> "store",
                                  access_token |-> Field(data, "access_token")]),
                    sh2, Value(Field(data, "access_token")))
    ELSE Settle(rec,
                [sh EXCEPT !.credentials =
                   [k \in DOMAIN @ \ {TOKEN_INFO_KEY} |-> @[k]]],
                Thrown(RefreshFailedError(Error("Token refresh failed", <<>>))))

\* refreshToken's settling as it would be if the refresh token of the record
\* read were kept when the response brings none
refreshToken_settle_CarryOver(rec, sh, response, t) ==
  IF response.kind = "json" /\ response.ok
    THEN LET data == response.data
             sh2 == [sh EXCEPT !.credentials =
                       storeToken(@, Field(data, "access_token"),
                                  Field(data, "expires_in"),
                                  IF Field(data, "refresh_token") = <<>>
                                    THEN Field(rec.tokenInfo[1], "refresh_token")
                                    ELSE Field(data, "refresh_token"), t)]
         IN  Settle(Log(rec, [ev |-> "store",
                                  access_token |-> Field(data, "access_token")]),
                    sh2, Value(Field(data, "access_token")))
    ELSE Settle(rec, sh, Thrown(RefreshFailedError(
                  IF response.kind = "json"
                    THEN Error("Token refresh failed", <<>>)
                    ELSE Error("fetch failed", <<>>))))

\* refreshToken from the fetch's outcome on, at time t
refreshToken_settle(rec, sh, response, t) ==
  IF response.kind = "json" /\ response.ok
    THEN LET data == response.data
             sh2 == [sh EXCEPT !.credentials =
                       storeToken(@, Field(data, "access_token"),
                                  Field(data, "expires_in"),
                                  Field(data, "refresh_token"), t)]
         IN  Settle(Log(rec, [ev |-> "store",
                                  access_token |-> Field(data, "access_token")]),
                    sh2, Value(Field(data, "access_token")))
    ELSE Settle(rec, sh, Thrown(RefreshFailedError(
                  IF response.kind = "json"
                    THEN Error("Token refresh failed", <<>>)
                    ELSE Error("fetch failed", <<>>))))

----------------------------------------------------------------------------
(* waitForRateLimit and updateRateLimitInfo *)

\* waitForRateLimit from the rate-limit check (line 230) on, at time t:
\* a second sleep, or lastRequest is set and executeRequest goes on to
\* getToken().  suspendedAt is when the observed call began to wait, kept
\* while it waits.
waitForRateLimit_230(rec, sh, t) ==
  IF /\ sh.rateLimitInfo # <<>>
     /\ sh.rateLimitInfo[1].remaining = 0
     /\ sh.rateLimitInfo[1].reset * 1000 - t > 0
    THEN [call |-> [rec EXCEPT !.pc = "waitForRateLimit_234",
                               !.wakeAt = sh.rateLimitInfo[1].reset * 1000,
                               !.suspendedAt =
                                 IF rec.observed /\ @ = <<>> THEN <<t>> ELSE @],
          sh |-> sh]
    ELSE getToken(Log([rec EXCEPT !.wakeAt = 0, !.suspendedAt = <<>>],
                      [ev |-> "waited"]),
                  [sh EXCEPT !.lastRequest = t], "executeRequest_82")

\* waitForRateLimit, but an exhausted quota is waited for instead of the
\* backoff delay
waitForRateLimit_QuotaFirst(rec, sh, t) ==
  LET timeSinceLastRequest == t - sh.lastRequest
      r == waitForRateLimit_230(rec, sh, t)
  IN  IF r.call.pc = "waitForRateLimit_234" THEN r
      ELSE IF timeSinceLastRequest < sh.backoffDelay
        THEN [call |-> [rec EXCEPT !.pc = "waitForRateLimit_224",
                          !.wakeAt = t + (sh.backoffDelay - timeSinceLastRequest),
                          !.suspendedAt = IF rec.observed THEN <<t>> ELSE @],
              sh |-> sh]
        ELSE r

\* waitForRateLimit from its start, at time t
waitForRateLimit(rec, sh, t) ==
  LET timeSinceLastRequest == t - sh.lastRequest
  IN  IF timeSinceLastRequest < sh.backoffDelay
        THEN [call |-> [rec EXCEPT !.pc = "waitForRateLimit_224",
                          !.wakeAt = t + (sh.backoffDelay - timeSinceLastRequest),
                          !.suspendedAt = IF rec.observed THEN <<t>> ELSE @],
              sh |-> sh]
        ELSE waitForRateLimit_230(rec, sh, t)

\* updateRateLimitInfo from the fetch's outcome on; executeRequest then
\* returns the result of the request
updateRateLimitInfo_settle(rec, sh, response) ==
  IF response.kind = "json" /\ response.ok
    THEN LET info == [limit |-> response.data.limit,
                      remaining |-> response.data.remaining,
                      reset |-> response.data.reset]
         IN  [call |-> Return(Log(rec, [ev |-> "quota"]), Value(rec.result)),
              sh |-> [sh EXCEPT
                        !.rateLimitInfo = <<info>>,
                        !.credentials =
                          VaultSet(@, RATE_LIMIT_KEY,
                                   JSONstringify([f \in DOMAIN info |-> <<info[f]>>]))]]
    ELSE [call |-> Return(rec, Value(rec.result)), sh |-> sh]

\* executeRequest once request(token) has settled
executeRequest_83(rec, sh, outcome) ==
  IF outcome.kind = "value"
    THEN getToken(Log([rec EXCEPT !.result = outcome.value],
                      [ev |-> "reset", backoffDelay |-> DEFAULT_BACKOFF]),
                  [sh EXCEPT !.backoffDelay = DEFAULT_BACKOFF],
                  "updateRateLimitInfo_195")
    ELSE catchBlock(rec, sh, outcome.error)

----------------------------------------------------------------------------
(* What the environment may answer *)

StoredAccessTokens == {"t1"}
StoredRefreshTokens == {<<>>, <<"r1">>}
StoredExpiresIn == {<<>>, <<0>>, <<300>>, <<3600>>}

RefreshResponses ==
  {[kind |-> "throw"], [kind |-> "json", ok |-> FALSE]}
  \cup {[kind |-> "json", ok |-> TRUE, data |-> d] :
          d \in {[access_token |-> "n1", expires_in |-> 3600, refresh_token |-> "r2"],
                 [access_token |-> "n2", expires_in |-> 60],
                 [access_token |-> "n2", refresh_token |-> "r2"]}}

RateLimitResponses(t) ==
  {[kind |-> "throw"], [kind |-> "json", ok |-> FALSE]}
  \cup {[kind |-> "json", ok |-> TRUE, data |-> d] :
          d \in {[limit |-> 5000, remaining |-> 0, reset |-> (t \div 1000) + 2],
                 [limit |-> 5000, remaining |-> 4999, reset |-> (t \div 1000) + 2]}}

RequestErrors ==
  {Error("Bad credentials", <<401>>), Error("Too Many Requests", <<429>>),
   Error("Server Error", <<500>>), Error("rate limit exceeded", <<>>),
   Error("Unauthorized", <<>>), Error("API rate limit exceeded", <<401>>)}

RequestOutcomes == {Value(<<"success">>)} \cup {Thrown(e) : e \in RequestErrors}

\* the function revoke() of device-flow.ts hands to executeRequest: it
\* resolves with undefined when the DELETE answered ok, throws
\* "Token revocation failed: <statusText>" when it did not, and rejects as
\* fetch does when the request could not be made
RevocationFailed(statusText) ==
  Error("Token revocation failed: " \o statusText, <<>>)

\* response.statusText of the answers that are not ok
StatusTexts == {"Not Found", "Unauthorized"}

RevokeOutcomes ==
  {Value(<<>>), Thrown(Error("network error", <<>>))}
  \cup {Thrown(RevocationFailed(text)) : text \in StatusTexts}

\* what the function handed to executeRequest by this call may do
OutcomesOf(rec) == IF rec.op = "revoke" THEN RevokeOutcomes ELSE RequestOutcomes

----------------------------------------------------------------------------
(* Actions *)

Idle(c) == call[c].pc = "idle"

\* a caller makes one more call
Begin(c) ==
  Idle(c) /\ calls < MaxCalls /\ calls' = calls + 1 /\ UNCHANGED flow

\* a caller calls getToken()
CallGetToken(c) ==
  /\ Begin(c)
  /\ Apply(c, getToken(Log(NewCall(c, "getToken"),
                            [ev |-> "getToken",
                             stored |-> VaultGet(credentials, TOKEN_INFO_KEY)]),
                        Shared, "top"))
  /\ UNCHANGED now

\* getToken resumes after reading the record
ResumeGetToken(c) ==
  /\ UNCHANGED <<calls, flow>>
  /\ call[c].pc = "getToken_43"
  /\ Apply(c, getToken_43(call[c], Shared, now))
  /\ UNCHANGED now

\* the refresh fetch settles
SettleRefresh(c) ==
  /\ UNCHANGED <<calls, flow>>
  /\ call[c].pc = "refreshToken_152"
  /\ \E response \in RefreshResponses :
       Apply(c, refreshToken_settle(call[c], Shared, response, now))
  /\ UNCHANGED now

\* a caller calls storeToken(accessToken, expiresIn?, refreshToken?)
CallStoreToken(c) ==
  /\ Begin(c)
  /\ \E token \in StoredAccessTokens, expiresIn \in StoredExpiresIn,
        refresh \in StoredRefreshTokens :
       /\ credentials' = storeToken(credentials, <<token>>, expiresIn,
                                    refresh, now)
       /\ call' = [call EXCEPT ![c] =
                     Return(Log(NewCall(c, "storeToken"),
                                [ev |-> "storeToken", accessToken |-> token,
                                 expiresIn |-> expiresIn,
                                 refreshToken |-> refresh, n |-> calls + 1,
                                 replaced |-> getStoredTokenInfo(credentials)]),
                            Value(<<>>))]
  /\ UNCHANGED <<now, rateLimitInfo, lastRequest, backoffDelay>>

\* the lifetimes around the two thresholds of expiresIn: 0 and
\* MIN_TOKEN_LIFETIME, in seconds
BoundaryExpiresIn ==
  {<<0>>, <<1>>, <<(MIN_TOKEN_LIFETIME \div 1000) - 1>>,
   <<MIN_TOKEN_LIFETIME \div 1000>>}

\* a caller calls storeToken(accessToken, expiresIn, refreshToken?) with a
\* lifetime at a threshold
CallStoreTokenBoundary(c) ==
  /\ Begin(c)
  /\ \E token \in StoredAccessTokens, expiresIn \in BoundaryExpiresIn,
        refresh \in StoredRefreshTokens :
       /\ credentials' = storeToken(credentials, <<token>>, expiresIn,
                                    refresh, now)
       /\ call' = [call EXCEPT ![c] =
                     Return(Log(NewCall(c, "storeToken"),
                                [ev |-> "storeToken", accessToken |-> token,
                                 expiresIn |-> expiresIn,
                                 refreshToken |-> refresh, n |-> calls + 1,
                                 replaced |-> getStoredTokenInfo(credentials)]),
                            Value(<<>>))]
  /\ UNCHANGED <<now, rateLimitInfo, lastRequest, backoffDelay>>

\* a caller calls executeRequest(request)
CallExecuteRequest(c) ==
  /\ Begin(c)
  /\ Apply(c, waitForRateLimit(NewCall(c, "executeRequest"), Shared, now))
  /\ UNCHANGED now

\* a setTimeout of waitForRateLimit fires: timers fire in the order of their
\* due times, never early
FirstDue(c) ==
  \A d \in Callers :
    call[d].pc \in {"waitForRateLimit_224", "waitForRateLimit_234"}
      => call[c].wakeAt <= call[d].wakeAt

Later(a, b) == IF a > b THEN a ELSE b

WakeBackoff(c) ==
  /\ UNCHANGED <<calls, flow>>
  /\ call[c].pc = "waitForRateLimit_224"
  /\ FirstDue(c)
  /\ now' = Later(now, call[c].wakeAt)
  /\ Apply(c, waitForRateLimit_230(call[c], Shared, now'))

WakeReset(c) ==
  /\ UNCHANGED <<calls, flow>>
  /\ call[c].pc = "waitForRateLimit_234"
  /\ FirstDue(c)
  /\ now' = Later(now, call[c].wakeAt)
  /\ Apply(c, getToken(Log([call[c] EXCEPT !.wakeAt = 0, !.suspendedAt = <<>>],
                           [ev |-> "waited"]),
                       [Shared EXCEPT !.lastRequest = now'],
                       "executeRequest_82"))

\* executeRequest invokes request(token)
InvokeRequest(c) ==
  /\ UNCHANGED <<calls, flow>>
  /\ call[c].pc = "executeRequest_83"
  /\ call' = [call EXCEPT ![c] =
                Log([@ EXCEPT !.pc = "executeRequest_83_await"],
                    [ev |-> "request", token |-> call[c].token])]
  /\ UNCHANGED <<now, credentials, rateLimitInfo, lastRequest, backoffDelay>>

\* request(token) settles
SettleRequest(c) ==
  /\ UNCHANGED <<calls, flow>>
  /\ call[c].pc = "executeRequest_83_await"
  /\ \E outcome \in OutcomesOf(call[c]) :
       /\ (outcome.kind = "error" /\ isRateLimitError(outcome.error))
            => backoffDelay * 2 <= MaxBackoff
       /\ Apply(c, executeRequest_83(
                      Log(call[c], [ev |-> "settled", outcome |-> outcome,
                                    stored |-> getStoredTokenInfo(credentials)]),
                      Shared, outcome))
  /\ UNCHANGED now

\* executeRequest invokes request(token) again after the refresh
InvokeRetry(c) ==
  /\ UNCHANGED <<calls, flow>>
  /\ call[c].pc = "executeRequest_105"
  /\ call' = [call EXCEPT ![c] =
                Log([@ EXCEPT !.pc = "executeRequest_105_await"],
                    [ev |-> "request", token |-> call[c].token])]
  /\ UNCHANGED <<now, credentials, rateLimitInfo, lastRequest, backoffDelay>>

\* the retried request settles: executeRequest settles the same way
SettleRetry(c) ==
  /\ UNCHANGED <<calls, flow>>
  /\ call[c].pc = "executeRequest_105_await"
  /\ \E outcome \in OutcomesOf(call[c]) :
       call' = [call EXCEPT ![c] =
                  Return(Log(@, [ev |-> "settled", outcome |-> outcome,
                                 stored |-> getStoredTokenInfo(credentials)]),
                         IF outcome.kind = "value" THEN Value(outcome.value)
                         ELSE outcome)]
  /\ UNCHANGED <<now, credentials, rateLimitInfo, lastRequest, backoffDelay>>

\* the rate_limit fetch of updateRateLimitInfo settles
SettleRateLimit(c) ==
  /\ UNCHANGED <<calls, flow>>
  /\ call[c].pc = "updateRateLimitInfo_192"
  /\ \E response \in RateLimitResponses(now) :
       Apply(c, updateRateLimitInfo_settle(call[c], Shared, response))
  /\ UNCHANGED now

----------------------------------------------------------------------------
(* GitHubDeviceFlow: the client of auth/device-flow.ts, which stores its   *)
(* token through the TokenManager, and the client of                       *)
(* auth/github-device-flow.ts, which keeps it in the vault under           *)
(* "github_token".  PRAutomatorError is called as (message, options) by    *)
(* the first and as (type, message, metadata) by the second.               *)

DEFAULT_MAX_ATTEMPTS == 12
DEFAULT_POLL_INTERVAL == 25
GITHUB_MAX_ATTEMPTS == 12
GITHUB_POLL_INTERVAL == 5000
GITHUB_TOKEN_KEY == "github_token"

DEVICE_CODE_ENDPOINT == "https://github.com/login/device/code"
CLIENT_ID == "test-client-id"
DEFAULT_SCOPES == <<"repo">>

\* options.x || d
OrDefault(o, d) == IF TruthyNum(o) THEN o[1] ELSE d

\* Array.prototype.join
RECURSIVE join(_, _)
join(array, separator) ==
  IF array = <<>> THEN ""
  ELSE IF Len(array) = 1 THEN array[1]
  ELSE array[1] \o separator \o join(Tail(array), separator)

\* the call in progress on the flow, with the count of what it has done:
\* token requests sent, answers received, sleeps completed, whether every
\* failure so far was authorization_pending and, while that is so, how many
\* there were, time slept, the credentials at its start, the kind of the
\* answer it is handling and how the verification went;
\* `granted` is the device-code response of the last successful initiate()
\* and when it came; `posts` counts the device-code requests of the call and
\* `request` is the last of them; `printed` is what the auth command has
\* written to the terminal, each line as the parts of its template
NoFlowCall ==
  [pc |-> "idle", op |-> "none", attempts |-> 0, wakeAt |-> 0, data |-> <<>>,
   ret |-> <<>>, requests |-> 0, answers |-> 0, sleeps |-> 0,
   onlyPending |-> TRUE, pendings |-> 0,
   slept |-> 0, startedAt |-> 0, before |-> <<>>, last |-> "none",
   verified |-> <<>>, granted |-> <<>>, posts |-> 0, request |-> <<>>,
   printed |-> <<>>]

\* new GitHubDeviceFlow(vault, options) of device-flow.ts
DeviceFlow(options) ==
  [impl |-> "device-flow", options |-> options, clientId |-> CLIENT_ID,
   scopes |-> IF "scopes" \in DOMAIN options THEN options.scopes
              ELSE DEFAULT_SCOPES,
   maxAttempts |-> OrDefault(Field(options, "maxAttempts"), DEFAULT_MAX_ATTEMPTS),
   pollInterval |->
     OrDefault(Field(options, "pollInterval"), DEFAULT_POLL_INTERVAL) * 1000,
   deviceCode |-> <<>>, expiresAt |-> <<>>] @@ NoFlowCall

\* new GitHubDeviceFlow(clientId, scopes, vault) of github-device-flow.ts
GitHubDeviceFlow ==
  [impl |-> "github-device-flow", options |-> <<>>, clientId |-> CLIENT_ID,
   scopes |-> DEFAULT_SCOPES,
   maxAttempts |-> GITHUB_MAX_ATTEMPTS,
   pollInterval |-> GITHUB_POLL_INTERVAL,
   deviceCode |-> <<>>, expiresAt |-> <<>>] @@ NoFlowCall

\* new PRAutomatorError(...) as each client calls it
FlowError(f, message, cause) ==
  PRAutomatorError(message,
                   IF f.impl = "device-flow" THEN "AUTH_ERROR" ELSE "auth",
                   cause)

NotInitiatedError(f) ==
  FlowError(f, "Device flow not initiated. Call initiate() first.", <<>>)
ExpiredError(f) ==
  FlowError(f, IF f.impl = "device-flow" THEN "Device code expired"
               ELSE "Device code has expired. Please initiate a new flow.",
            <<>>)
TimeoutError(f) ==
  FlowError(f, IF f.impl = "device-flow"
                 THEN "Authentication timeout. Please try again."
                 ELSE "Max polling attempts reached. Please try again.",
            <<>>)
InitiateFailedError(f, cause) ==
  FlowError(f, IF f.impl = "device-flow" THEN "Failed to initiate device flow"
               ELSE "Failed to initiate GitHub device flow", <<cause>>)
InvalidTokenError(f, cause) == FlowError(f, "Invalid access token", <<cause>>)
ObtainFailedError(f, cause) ==
  FlowError(f, "Failed to obtain access token", <<cause>>)

\* a fetch outcome: the request threw, or a Response with ok and its body
FetchThrows == [kind |-> "throw", ok |-> FALSE, body |-> <<>>]
Response(ok, body) == [kind |-> "response", ok |-> ok, body |-> body]
FetchError(response) ==
  IF response.kind = "throw" THEN Error("network error", <<>>)
  ELSE Error("GitHub API error", <<>>)

FlowReturn(f, outcome) ==
  [f EXCEPT !.pc = "idle", !.ret = <<outcome>>, !.wakeAt = 0]

FlowBegin(f, operation, creds, t) ==
  [f EXCEPT !.pc = "idle", !.op = operation, !.attempts = 0, !.wakeAt = 0,
            !.data = <<>>, !.ret = <<>>, !.requests = 0, !.sleeps = 0,
            !.answers = 0, !.onlyPending = TRUE, !.pendings = 0,
            !.slept = 0, !.startedAt = t,
            !.before = creds, !.last = "none", !.verified = <<>>,
            !.posts = 0, !.request = <<>>]

\* initiate(): the device-code request is sent
initiate(f) ==
  [f EXCEPT !.pc = "initiate_fetch", !.posts = @ + 1,
            !.request = <<[url |-> DEVICE_CODE_ENDPOINT, method |-> "POST",
                           body |-> [client_id |-> f.clientId,
                                     scope |-> join(f.scopes, " ")]]>>]

\* initiate_settle, but a failed initiate() drops the device code held
initiate_settle_Dropping(f, response, t) ==
  IF response.kind = "throw" \/ ~response.ok
    THEN FlowReturn([f EXCEPT !.last = "failure", !.deviceCode = <<>>,
                              !.expiresAt = <<>>],
                    Thrown(InitiateFailedError(f, FetchError(response))))
    ELSE LET data == response.body
             g == [f EXCEPT !.granted = <<[at |-> t, data |-> data]>>,
                            !.last = "success",
                            !.deviceCode = <<data.device_code>>,
                            !.expiresAt = <<t + data.expires_in * 1000>>,
                            !.pollInterval =
                              IF f.impl = "device-flow" THEN @
                              ELSE data.interval * 1000]
         IN  FlowReturn(g, Value(<<[verification_uri |-> data.verification_uri,
                                    user_code |-> data.user_code]>>))

\* initiate() when the device-code request has settled
initiate_settle(f, response, t) ==
  IF response.kind = "throw" \/ ~response.ok
    THEN FlowReturn([f EXCEPT !.last = "failure"],
                    Thrown(InitiateFailedError(f, FetchError(response))))
    ELSE LET data == response.body
             g == [f EXCEPT !.granted = <<[at |-> t, data |-> data]>>,
                            !.last = "success",
                            !.deviceCode = <<data.device_code>>,
                            !.expiresAt = <<t + data.expires_in * 1000>>,
                            !.pollInterval =
                              IF f.impl = "device-flow" THEN @
                              ELSE data.interval * 1000]
         IN  FlowReturn(g, Value(<<[verification_uri |-> data.verification_uri,
                                    user_code |-> data.user_code]>>))

\* pollLoop, but with the loop test attempts <= maxAttempts
pollLoop_OneMore(f) ==
  IF f.attempts <= f.maxAttempts
    THEN [f EXCEPT !.pc = "poll_fetch", !.requests = @ + 1]
    ELSE FlowReturn(f, Thrown(TimeoutError(f)))

\* the loop of poll() from its test on: the next token request is sent, or
\* the timeout is raised
pollLoop(f) ==
  IF f.attempts < f.maxAttempts
    THEN [f EXCEPT !.pc = "poll_fetch", !.requests = @ + 1]
    ELSE FlowReturn(f, Thrown(TimeoutError(f)))

\* poll, but without the test of the deadline
poll_NoDeadline(f, t) ==
  IF f.deviceCode = <<>> \/ (f.impl = "device-flow" /\ f.expiresAt = <<>>)
    THEN FlowReturn(f, Thrown(NotInitiatedError(f)))
  ELSE pollLoop(f)

\* poll() up to its first token request
poll(f, t) ==
  IF f.deviceCode = <<>> \/ (f.impl = "device-flow" /\ f.expiresAt = <<>>)
    THEN FlowReturn(f, Thrown(NotInitiatedError(f)))
  ELSE IF f.expiresAt # <<>> /\ t > f.expiresAt[1]
    THEN FlowReturn(f, Thrown(ExpiredError(f)))
  ELSE pollLoop(f)

\* setTimeout(resolve, this.pollInterval)
pollSleep(f, t) ==
  [f EXCEPT !.pc = "poll_sleep", !.wakeAt = t + f.pollInterval,
            !.slept = @ + f.pollInterval]

IsPending(response) ==
  /\ response.kind = "response"
  /\ ~response.ok
  /\ Field(response.body, "error") = <<"authorization_pending">>

\* the kind of an answer of the token endpoint: success, one of the two
\* protocol-pending codes, any other error code (terminal), or no answer
AnswerKind(response) ==
  IF response.kind = "throw" THEN "throw"
  ELSE IF response.ok THEN "success"
  ELSE IF Field(response.body, "error") = <<"authorization_pending">>
    THEN "pending"
  ELSE IF Field(response.body, "error") = <<"slow_down">> THEN "slow_down"
  ELSE "terminal"

\* what the call has been answered so far
Answered(f, response) ==
  IF IsPending(response)
    THEN [f EXCEPT !.answers = @ + 1, !.last = "pending",
                   !.pendings = IF f.onlyPending THEN @ + 1 ELSE 0]
  ELSE IF response.kind = "response" /\ response.ok
    THEN [f EXCEPT !.answers = @ + 1, !.last = "success",
                   !.data = <<response.body>>]
  ELSE [f EXCEPT !.answers = @ + 1, !.last = AnswerKind(response),
                 !.onlyPending = FALSE, !.pendings = 0]

\* poll() when a token request has settled
poll_settle(f, creds, response, t) ==
  IF f.impl = "device-flow"
    THEN IF response.kind = "throw" \/ ~response.ok
           THEN [flow |-> pollSleep(f, t), credentials |-> creds]
           ELSE [flow |-> [f EXCEPT !.pc = "verifyToken_fetch",
                                    !.data = <<response.body>>],
                 credentials |-> creds]
  ELSE IF IsPending(response)
    THEN [flow |-> pollSleep(f, t), credentials |-> creds]
  ELSE IF response.kind = "response" /\ response.ok
    THEN [flow |-> FlowReturn(f, Value(<<[access_token |->
                                            Field(response.body, "access_token")]>>)),
          credentials |->
            (GITHUB_TOKEN_KEY :> Field(response.body, "access_token")) @@ creds]
  ELSE IF f.attempts = f.maxAttempts - 1
    THEN [flow |-> FlowReturn(f, Thrown(ObtainFailedError(f, FetchError(response)))),
          credentials |-> creds]
  ELSE [flow |-> pollLoop(f), credentials |-> creds]

\* poll() when its sleep is over: attempts++ and the loop test
poll_wake(f) ==
  pollLoop([f EXCEPT !.attempts = @ + 1, !.sleeps = @ + 1, !.wakeAt = 0,
                     !.last = "none"])

\* verifyToken_settle, but the verified token is not handed to storeToken
verifyToken_settle_Unstored(f, creds, response, t) ==
  IF response.kind = "throw" \/ ~response.ok
    THEN [flow |-> FlowReturn([f EXCEPT !.verified = <<FALSE>>],
                              Thrown(InvalidTokenError(f, FetchError(response)))),
          credentials |-> creds]
    ELSE [flow |-> FlowReturn([f EXCEPT !.verified = <<TRUE>>], Value(<<>>)),
          credentials |-> creds]

\* verifyToken_settle, but the token is stored before the verification is
\* looked at
verifyToken_settle_StoreFirst(f, creds, response, t) ==
  [flow |->
     IF response.kind = "throw" \/ ~response.ok
       THEN FlowReturn([f EXCEPT !.verified = <<FALSE>>],
                       Thrown(InvalidTokenError(f, FetchError(response))))
       ELSE FlowReturn([f EXCEPT !.verified = <<TRUE>>], Value(<<>>)),
   credentials |-> storeToken(creds, Field(f.data[1], "access_token"),
                              Field(f.data[1], "expires_in"),
                              Field(f.data[1], "refresh_token"), t)]

\* poll() of device-flow.ts when the verification request has settled
verifyToken_settle(f, creds, response, t) ==
  IF response.kind = "throw" \/ ~response.ok
    THEN [flow |-> FlowReturn([f EXCEPT !.verified = <<FALSE>>],
                              Thrown(InvalidTokenError(f, FetchError(response)))),
          credentials |-> creds]
    ELSE [flow |-> FlowReturn([f EXCEPT !.verified = <<TRUE>>], Value(<<>>)),
          credentials |-> storeToken(creds, Field(f.data[1], "access_token"),
                                     Field(f.data[1], "expires_in"),
                                     Field(f.data[1], "refresh_token"), t)]

\* vault.getSecret("github_token") as revoke() tests it: nothing when the
\* key is absent or holds no token
getSecret(creds, key) ==
  IF key \in DOMAIN creds /\ creds[key] # <<>> THEN creds[key] ELSE <<>>

\* vault.deleteSecret(key)
deleteSecret(creds, key) == [k \in DOMAIN creds \ {key} |-> creds[k]]

RevokeFailedError(f, cause) ==
  FlowError(f, "Failed to revoke GitHub token: " \o cause.message, <<cause>>)

\* revoke() of github-device-flow.ts up to its DELETE request
revoke(f, creds) ==
  IF getSecret(creds, GITHUB_TOKEN_KEY) = <<>>
    THEN FlowReturn(f, Value(<<>>))
    ELSE [f EXCEPT !.pc = "revoke_fetch", !.requests = @ + 1]

\* revoke_settle, but the secret is deleted whatever the answer
revoke_settle_Deleting(f, creds, response) ==
  IF response.kind = "throw"
    THEN [flow |-> FlowReturn([f EXCEPT !.answers = @ + 1, !.last = "throw"],
                              Thrown(RevokeFailedError(f, FetchError(response)))),
          credentials |-> deleteSecret(creds, GITHUB_TOKEN_KEY)]
  ELSE IF ~response.ok
    THEN [flow |-> FlowReturn([f EXCEPT !.answers = @ + 1, !.last = "failure"],
                              Thrown(RevokeFailedError(
                                       f, Error("Failed to revoke token: "
                                                \o response.body.statusText, <<>>)))),
          credentials |-> deleteSecret(creds, GITHUB_TOKEN_KEY)]
  ELSE [flow |-> FlowReturn([f EXCEPT !.answers = @ + 1, !.last = "success"],
                            Value(<<>>)),
        credentials |-> deleteSecret(creds, GITHUB_TOKEN_KEY)]

\* revoke() of github-device-flow.ts when the DELETE request has settled
revoke_settle(f, creds, response) ==
  IF response.kind = "throw"
    THEN [flow |-> FlowReturn([f EXCEPT !.answers = @ + 1, !.last = "throw"],
                              Thrown(RevokeFailedError(f, FetchError(response)))),
          credentials |-> creds]
  ELSE IF ~response.ok
    THEN [flow |-> FlowReturn([f EXCEPT !.answers = @ + 1, !.last = "failure"],
                              Thrown(RevokeFailedError(
                                       f, Error("Failed to revoke token: "
                                                \o response.body.statusText, <<>>)))),
          credentials |-> creds]
  ELSE [flow |-> FlowReturn([f EXCEPT !.answers = @ + 1, !.last = "success"],
                            Value(<<>>)),
        credentials |-> deleteSecret(creds, GITHUB_TOKEN_KEY)]

\* what the revoke endpoint may answer
RevokeResponses ==
  {FetchThrows, Response(TRUE, <<>>)}
  \cup {Response(FALSE, [statusText |-> text]) : text \in StatusTexts}

\* what the endpoints may answer
DeviceCodeResponses ==
  {FetchThrows, Response(FALSE, <<>>)}
  \cup {Response(TRUE, [device_code |-> "d1", user_code |-> "u1",
                        verification_uri |-> "https://github.com/login/device",
                        expires_in |-> e, interval |-> i]) :
          e \in {1, 900}, i \in {1, 5}}
  \cup {Response(TRUE, [device_code |-> "d2", user_code |-> "u2",
                        verification_uri |-> "https://github.com/login/device",
                        expires_in |-> 900, interval |-> 5])}

TokenResponses ==
  {FetchThrows,
   Response(FALSE, [error |-> "authorization_pending"]),
   Response(FALSE, [error |-> "slow_down"]),
   Response(FALSE, [error |-> "access_denied"]),
   Response(TRUE, [access_token |-> "a1"]),
   Response(TRUE, [access_token |-> "a2", expires_in |-> 3600,
                   refresh_token |-> "r1"])}

VerifyResponses == {FetchThrows, Response(FALSE, <<>>), Response(TRUE, <<>>)}

\* the options a device-flow.ts client is constructed with
Options(maxAttempts, pollInterval) ==
  (IF maxAttempts # <<>> THEN "maxAttempts" :> maxAttempts[1] ELSE <<>>)
  @@ (IF pollInterval # <<>> THEN "pollInterval" :> pollInterval[1] ELSE <<>>)

FlowOptions ==
  {Options(<<>>, <<>>), Options(<<0>>, <<5>>), Options(<<2>>, <<>>),
   Options(<<2>>, <<5>>)}

\* options.scopes, and the scopes argument of the other client
WithScopes(options, scopes) == ("scopes" :> scopes) @@ options

Scopes == {<<>>, <<"repo", "user">>, <<"repo", "user", "gist">>}

FlowIdle == flow.pc = "idle" /\ calls < MaxFlowCalls /\ calls' = calls + 1

CallInitiate ==
  /\ FlowIdle
  /\ flow' = initiate(FlowBegin(flow, "initiate", credentials, now))
  /\ UNCHANGED <<now, credentials, rateLimitInfo, lastRequest, backoffDelay, call>>

SettleInitiate ==
  /\ flow.pc = "initiate_fetch"
  /\ \E response \in DeviceCodeResponses :
       flow' = initiate_settle(flow, response, now)
  /\ UNCHANGED <<now, credentials, rateLimitInfo, lastRequest, backoffDelay,
                 call, calls>>

CallPoll ==
  /\ FlowIdle
  /\ flow' = poll(FlowBegin(flow, "poll", credentials, now), now)
  /\ UNCHANGED <<now, credentials, rateLimitInfo, lastRequest, backoffDelay, call>>

\* a token request settles
SettlePoll ==
  /\ flow.pc = "poll_fetch"
  /\ \E response \in TokenResponses :
       LET r == poll_settle(Answered(flow, response), credentials, response, now)
       IN  /\ r.flow.requests <= MaxRequests
           /\ flow' = r.flow
           /\ credentials' = r.credentials
  /\ UNCHANGED <<now, rateLimitInfo, lastRequest, backoffDelay, call, calls>>

\* the sleep of poll() is over
WakePoll ==
  /\ flow.pc = "poll_sleep"
  /\ now' = Later(now, flow.wakeAt)
  /\ flow' = poll_wake(flow)
  /\ UNCHANGED <<credentials, rateLimitInfo, lastRequest, backoffDelay, call, calls>>

\* the verification request settles
SettleVerify ==
  /\ flow.pc = "verifyToken_fetch"
  /\ \E response \in VerifyResponses :
       LET r == verifyToken_settle(flow, credentials, response, now)
       IN  flow' = r.flow /\ credentials' = r.credentials
  /\ UNCHANGED <<now, rateLimitInfo, lastRequest, backoffDelay, call, calls>>

\* revoke() of device-flow.ts: tokenManager.executeRequest(fn)
CallRevoke(c) ==
  /\ flow.impl = "device-flow"
  /\ Begin(c)
  /\ Apply(c, waitForRateLimit(
                 Log(NewCall(c, "revoke"),
                     [ev |-> "revoke",
                      stored |-> VaultGet(credentials, TOKEN_INFO_KEY)]),
                 Shared, now))
  /\ UNCHANGED now

\* revoke() of github-device-flow.ts
CallRevokeGitHub ==
  /\ flow.impl = "github-device-flow"
  /\ FlowIdle
  /\ flow' = revoke(FlowBegin(flow, "revoke", credentials, now), credentials)
  /\ UNCHANGED <<now, credentials, rateLimitInfo, lastRequest, backoffDelay, call>>

\* its DELETE request settles
SettleRevokeGitHub ==
  /\ flow.pc = "revoke_fetch"
  /\ \E response \in RevokeResponses :
       LET r == revoke_settle(flow, credentials, response)
       IN  flow' = r.flow /\ credentials' = r.credentials
  /\ UNCHANGED <<now, rateLimitInfo, lastRequest, backoffDelay, call, calls>>

\* the end of the login action of the auth command (lines 47-72): what it
\* prints when executeRequest or getToken has thrown, and when both have
\* returned
login_report(outcome) ==
  IF outcome.kind = "value"
    THEN <<[to |-> "spinner.succeed",
            parts |-> <<"Successfully logged in to GitHub as ",
                        IF outcome.value = <<>> THEN "undefined"
                        ELSE outcome.value[1]>>]>>
    ELSE <<[to |-> "spinner.fail", parts |-> <<outcome.error.message>>]>>
         \o (IF outcome.error.name = "PRAutomatorError"
               THEN <<[to |-> "console.error",
                       parts |-> <<"Details:",
                                   IF outcome.error.cause = <<>>
                                     THEN "Unknown error"
                                     ELSE outcome.error.cause[1].message>>]>>
               ELSE <<>>)

\* login, line 49: flow.executeRequest(...) once poll() has returned
LoginVerifies ==
  /\ call[Observed].op = "none"
  /\ CallExecuteRequest(Observed)

\* login, line 65: flow.getToken() once the request has returned
LoginGetsToken ==
  /\ call[Observed].op = "executeRequest"
  /\ call[Observed].ret # <<>>
  /\ call[Observed].ret[1].kind = "value"
  /\ flow.printed = <<>>
  /\ CallGetToken(Observed)

\* login, lines 65-71: the command reports
LoginReports ==
  /\ call[Observed].pc = "idle"
  /\ call[Observed].ret # <<>>
  /\ call[Observed].op = "getToken" \/ call[Observed].ret[1].kind = "error"
  /\ flow.printed = <<>>
  /\ flow' = [flow EXCEPT !.printed = login_report(call[Observed].ret[1])]
  /\ UNCHANGED <<now, credentials, rateLimitInfo, lastRequest, backoffDelay,
                 call, calls>>

\* time passes
Tick ==
  /\ now + TickMs <= StartTime + MaxTicks * TickMs
  /\ now' = now + TickMs
  /\ UNCHANGED <<credentials, rateLimitInfo, lastRequest, backoffDelay, call,
               calls, flow>>

Init ==
  /\ now = StartTime
  /\ credentials \in {<<>>, (TOKEN_INFO_KEY :> Garbage)}
  /\ rateLimitInfo = <<>>
  /\ lastRequest = 0
  /\ backoffDelay = DEFAULT_BACKOFF
  /\ call = [c \in Callers |-> IdleCall]
  /\ calls = 0
  /\ flow = DeviceFlow(<<>>)

\* Two callers share one TokenManager and call getToken and storeToken.
Next ==
  \/ \E c \in Callers : CallGetToken(c)
  \/ \E c \in Callers : ResumeGetToken(c)
  \/ \E c \in Callers : SettleRefresh(c)
  \/ \E c \in Callers : CallStoreToken(c)
  \/ Tick

Spec == Init /\ [][Next]_vars

\* The observed caller makes its requests through executeRequest, one after
\* the other, while another caller stores and reads tokens beside it.
NextRequest ==
  \/ CallExecuteRequest(Observed)
  \/ \E c \in Callers \ {Observed} : CallStoreToken(c)
  \/ \E c \in Callers \ {Observed} : CallGetToken(c)
  \/ \E c \in Callers : ResumeGetToken(c)
  \/ \E c \in Callers : SettleRefresh(c)
  \/ WakeBackoff(Observed)
  \/ WakeReset(Observed)
  \/ InvokeRequest(Observed)
  \/ SettleRequest(Observed)
  \/ InvokeRetry(Observed)
  \/ SettleRetry(Observed)
  \/ SettleRateLimit(Observed)
  \/ Tick

SpecRequest == Init /\ [][NextRequest]_vars

\* Two callers store tokens whose lifetime is at a threshold and read them.
NextBoundary ==
  \/ \E c \in Callers : CallGetToken(c)
  \/ \E c \in Callers : ResumeGetToken(c)
  \/ \E c \in Callers : SettleRefresh(c)
  \/ \E c \in Callers : CallStoreTokenBoundary(c)
  \/ Tick

SpecBoundary == Init /\ [][NextBoundary]_vars

\* A device-flow client of either kind, constructed with or without options,
\* is initiated and polled.
InitPoll ==
  /\ now = StartTime
  /\ credentials = <<>>
  /\ rateLimitInfo = <<>>
  /\ lastRequest = 0
  /\ backoffDelay = DEFAULT_BACKOFF
  /\ call = [c \in Callers |-> IdleCall]
  /\ calls = 0
  /\ flow \in {DeviceFlow(o) : o \in FlowOptions} \cup {GitHubDeviceFlow}

NextPoll ==
  \/ CallInitiate
  \/ SettleInitiate
  \/ CallPoll
  \/ SettlePoll
  \/ WakePoll
  \/ SettleVerify
  \/ Tick

SpecPoll == InitPoll /\ [][NextPoll]_vars

\* A device-flow client of either kind, constructed with or without scopes,
\* is initiated again and again.
InitInitiate ==
  /\ now = StartTime
  /\ credentials = <<>>
  /\ rateLimitInfo = <<>>
  /\ lastRequest = 0
  /\ backoffDelay = DEFAULT_BACKOFF
  /\ call = [c \in Callers |-> IdleCall]
  /\ calls = 0
  /\ flow \in {DeviceFlow(<<>>), GitHubDeviceFlow}
              \cup {DeviceFlow(WithScopes(<<>>, sc)) : sc \in Scopes}
              \cup {[GitHubDeviceFlow EXCEPT !.scopes = sc] : sc \in Scopes}

NextInitiate ==
  \/ CallInitiate
  \/ SettleInitiate
  \/ Tick

SpecInitiate == InitInitiate /\ [][NextInitiate]_vars

\* the clients after an initiate() that succeeded
Initiated ==
  {initiate_settle(initiate(FlowBegin(f, "initiate", <<>>, StartTime)),
                   response, StartTime) :
     f \in {DeviceFlow(o) : o \in FlowOptions} \cup {GitHubDeviceFlow},
     response \in {d \in DeviceCodeResponses : d.kind = "response" /\ d.ok}}

InitRepoll ==
  /\ now = StartTime
  /\ credentials = <<>>
  /\ rateLimitInfo = <<>>
  /\ lastRequest = 0
  /\ backoffDelay = DEFAULT_BACKOFF
  /\ call = [c \in Callers |-> IdleCall]
  /\ calls = 0
  /\ flow \in Initiated

SpecRepoll == InitRepoll /\ [][NextPoll]_vars

\* revoke() of either client, on a vault that holds no token or the token an
\* earlier poll() stored
StoredByPoll ==
  {storeToken(<<>>, <<"t1">>, e, r, StartTime) :
     e \in {<<>>, <<3600>>}, r \in StoredRefreshTokens}

InitRevoke ==
  /\ now = StartTime
  /\ rateLimitInfo = <<>>
  /\ lastRequest = 0
  /\ backoffDelay = DEFAULT_BACKOFF
  /\ call = [c \in Callers |-> IdleCall]
  /\ calls = 0
  /\ \/ flow = DeviceFlow(<<>>) /\ credentials \in {<<>>} \cup StoredByPoll
     \/ /\ flow = GitHubDeviceFlow
        /\ credentials \in {<<>>, (GITHUB_TOKEN_KEY :> <<"a1">>)}

NextRevoke ==
  \/ CallRevoke(Observed)
  \/ WakeBackoff(Observed)
  \/ WakeReset(Observed)
  \/ ResumeGetToken(Observed)
  \/ SettleRefresh(Observed)
  \/ InvokeRequest(Observed)
  \/ SettleRequest(Observed)
  \/ InvokeRetry(Observed)
  \/ SettleRetry(Observed)
  \/ SettleRateLimit(Observed)
  \/ CallRevokeGitHub
  \/ SettleRevokeGitHub
  \/ Tick

SpecRevoke == InitRevoke /\ [][NextRevoke]_vars

\* every operation that reads or writes the token, on a client that has been
\* initiated, called one after the other as the commands of the CLI do
InitStore ==
  /\ now = StartTime
  /\ rateLimitInfo = <<>>
  /\ lastRequest = 0
  /\ backoffDelay = DEFAULT_BACKOFF
  /\ call = [c \in Callers |-> IdleCall]
  /\ calls = MaxCalls - 2
  /\ flow \in {f \in Initiated :
                 /\ f.options \in {<<>>, Options(<<2>>, <<5>>)}
                 /\ f.granted[1].data.device_code = "d2"}
  /\ credentials \in
       IF flow.impl = "device-flow" THEN {<<>>} \cup StoredByPoll
       ELSE {<<>>, (GITHUB_TOKEN_KEY :> <<"a1">>)}

NextStore ==
  \/ flow.pc = "idle" /\ CallGetToken(Observed)
  \/ flow.pc = "idle" /\ CallStoreToken(Observed)
  \/ flow.pc = "idle" /\ CallExecuteRequest(Observed)
  \/ flow.pc = "idle" /\ CallRevoke(Observed)
  \/ ResumeGetToken(Observed)
  \/ SettleRefresh(Observed)
  \/ WakeBackoff(Observed)
  \/ WakeReset(Observed)
  \/ InvokeRequest(Observed)
  \/ SettleRequest(Observed)
  \/ InvokeRetry(Observed)
  \/ SettleRetry(Observed)
  \/ SettleRateLimit(Observed)
  \/ Idle(Observed) /\ CallInitiate
  \/ SettleInitiate
  \/ Idle(Observed) /\ CallPoll
  \/ SettlePoll
  \/ WakePoll
  \/ SettleVerify
  \/ Idle(Observed) /\ CallRevokeGitHub
  \/ SettleRevokeGitHub
  \/ Tick

SpecStore == InitStore /\ [][NextStore]_vars

\* the login action of the auth command from the return of poll() on; its
\* executeRequest is the first of the TokenManager, which has nothing to
\* wait for
InitLogin ==
  /\ now = StartTime
  /\ credentials \in StoredByPoll
  /\ rateLimitInfo = <<>>
  /\ lastRequest = 0
  /\ backoffDelay = DEFAULT_BACKOFF
  /\ call = [c \in Callers |-> IdleCall]
  /\ calls = MaxCalls - 2
  /\ flow = DeviceFlow(<<>>)

NextLogin ==
  \/ LoginVerifies
  \/ LoginGetsToken
  \/ LoginReports
  \/ ResumeGetToken(Observed)
  \/ SettleRefresh(Observed)
  \/ InvokeRequest(Observed)
  \/ SettleRequest(Observed)
  \/ InvokeRetry(Observed)
  \/ SettleRetry(Observed)
  \/ SettleRateLimit(Observed)
  \/ Tick

SpecLogin == InitLogin /\ [][NextLogin]_vars

\* two callers of executeRequest on one TokenManager, after earlier requests
\* of which the last may have met a rate limit
InitSpacing ==
  /\ now = StartTime
  /\ credentials = storeToken(<<>>, <<"t1">>, <<>>, <<"r1">>, StartTime)
  /\ rateLimitInfo = <<>>
  /\ lastRequest \in {0, StartTime}
  /\ backoffDelay \in {DEFAULT_BACKOFF, 2 * DEFAULT_BACKOFF}
  /\ lastRequest = 0 => backoffDelay = DEFAULT_BACKOFF
  /\ call = [c \in Callers |-> IdleCall]
  /\ calls = MaxCalls - 2
  /\ flow = DeviceFlow(<<>>)

NextSpacing ==
  \/ \E c \in Callers : CallExecuteRequest(c)
  \/ \E c \in Callers : WakeBackoff(c)
  \/ \E c \in Callers : WakeReset(c)
  \/ \E c \in Callers : ResumeGetToken(c)
  \/ \E c \in Callers : SettleRefresh(c)
  \/ \E c \in Callers : InvokeRequest(c)
  \/ \E c \in Callers : SettleRequest(c)
  \/ \E c \in Callers : InvokeRetry(c)
  \/ \E c \in Callers : SettleRetry(c)
  \/ \E c \in Callers : SettleRateLimit(c)
  \/ Tick

SpecSpacing == InitSpacing /\ [][NextSpacing]_vars

\* one executeRequest on a TokenManager that earlier calls have left with a
\* backoff delay, a last request time and a quota snapshot: a call that met
\* a rate limit doubles the delay while another, which succeeded, is still
\* fetching the snapshot that it then records
QuotaSnapshots ==
  {<<>>}
  \cup {<<[limit |-> 5000, remaining |-> r, reset |-> (StartTime \div 1000) + d]>> :
          r \in {0, 4999}, d \in {0, 1, 2}}

InitWait ==
  /\ now = StartTime
  /\ credentials = storeToken(<<>>, <<"t1">>, <<>>, <<"r1">>, StartTime)
  /\ rateLimitInfo \in QuotaSnapshots
  /\ lastRequest \in {0, StartTime - TickMs, StartTime}
  /\ backoffDelay \in {DEFAULT_BACKOFF, 2 * DEFAULT_BACKOFF, 4 * DEFAULT_BACKOFF}
  /\ lastRequest = 0 => (backoffDelay = DEFAULT_BACKOFF /\ rateLimitInfo = <<>>)
  /\ call = [c \in Callers |-> IdleCall]
  /\ calls = MaxCalls - 1
  /\ flow = DeviceFlow(<<>>)

NextWait ==
  \/ CallExecuteRequest(Observed)
  \/ WakeBackoff(Observed)
  \/ WakeReset(Observed)
  \/ ResumeGetToken(Observed)
  \/ SettleRefresh(Observed)
  \/ InvokeRequest(Observed)
  \/ SettleRequest(Observed)
  \/ InvokeRetry(Observed)
  \/ SettleRetry(Observed)
  \/ SettleRateLimit(Observed)
  \/ Tick

\* a timer that is due fires in the end
SpecWait ==
  /\ InitWait
  /\ [][NextWait]_vars
  /\ WF_vars(WakeBackoff(Observed))
  /\ WF_vars(WakeReset(Observed))

----------------------------------------------------------------------------
(* Properties.  They read the observed caller's call and its history.      *)

Obs == call[Observed]

\* the observed caller's last call was `operation` and has settled
Finished(operation) ==
  Obs.pc = "idle" /\ Obs.op = operation /\ Obs.ret # <<>>

Count(log, name) == Cardinality({i \in DOMAIN log : log[i].ev = name})

\* a record is outside the refresh window at time t
Fresh(record, t) ==
  "expires_at" \notin DOMAIN record
    \/ record.expires_at >= t + MIN_TOKEN_LIFETIME

InRefresh(c) == call[c].op = "getToken" /\ call[c].pc = "refreshToken_152"

\* C1: single-flight refresh.  While the refresh exchange of one getToken()
\* call is in flight, an overlapping getToken() call on the same manager does
\* not send a second refresh request (it would await the one in flight, and
\* so both would return the same new token).
C1_SingleFlightRefresh ==
  \A c, d \in Callers : (c # d /\ InRefresh(c)) => ~InRefresh(d)

GetTokenReturns ==
  /\ call[Observed].pc # "idle"
  /\ call'[Observed].pc = "idle"
  /\ call'[Observed].op = "getToken"
  /\ call'[Observed].ret[1].kind = "value"

\* C3 as claimed: when getToken() returns a token, the record stored at that
\* moment has no expires_at or expires_at > now + 5 min; and if the record
\* read at entry was not so, exactly one refresh exchange was sent.
C3_ReturnedTokenFresh ==
  [][GetTokenReturns =>
       LET stored == getStoredTokenInfo(credentials')
           entry == call'[Observed].log[1].stored[1].obj
       IN  /\ stored # <<>>
           /\ \/ "expires_at" \notin DOMAIN stored[1]
              \/ stored[1].expires_at > now' + MIN_TOKEN_LIFETIME
           /\ ~Fresh(entry, call'[Observed].checkedAt)
                => Count(call'[Observed].log, "refresh") = 1]_vars

\* C3 amended: getToken() returns without a refresh exactly when the record
\* it read at entry has no expires_at or expires_at >= now + 5 min at the
\* expiry check; otherwise exactly one refresh exchange was sent by the call
\* before it returned.
C3_FreshOrRefreshedOnce ==
  (Finished("getToken") /\ Obs.ret[1].kind = "value") =>
    LET entry == Obs.log[1].stored[1].obj
    IN  IF Fresh(entry, Obs.checkedAt)
          THEN Count(Obs.log, "refresh") = 0
          ELSE Count(Obs.log, "refresh") = 1

\* C3 witness: a record inside the window was read, one exchange was sent and
\* the refreshed token returned
C3_Witness ==
  /\ Finished("getToken")
  /\ Obs.ret[1].kind = "value"
  /\ ~Fresh(Obs.log[1].stored[1].obj, Obs.checkedAt)
  /\ Count(Obs.log, "refresh") = 1

\* a step in which the refresh of some getToken() call fails: before the
\* request for want of a refresh token, or when the exchange has failed
RefreshFails(c) ==
  /\ call[c].op = "getToken"
  /\ call[c].pc \in {"getToken_43", "refreshToken_152"}
  /\ call'[c].pc = "idle"
  /\ call'[c].ret[1].kind = "error"

\* C8: a refresh that cannot complete never changes the stored record.
\* Without a refresh_token it raises 'No refresh token available' and no
\* request has been sent; when the endpoint answers non-success or the
\* request throws it raises 'Failed to refresh token'; in the failing step
\* the credentials are left as they are, the record still there.
C8_FailedRefreshKeepsRecord ==
  /\ [][\A c \in Callers :
          RefreshFails(c) =>
            /\ credentials' = credentials
            /\ TOKEN_INFO_KEY \in DOMAIN credentials'
            /\ IF call[c].pc = "getToken_43"
                 THEN /\ call'[c].ret[1] = Thrown(NoRefreshTokenError)
                      /\ "refresh_token" \notin DOMAIN call[c].tokenInfo[1]
                 ELSE /\ call'[c].ret[1].error.message = "Failed to refresh token"
                      /\ call'[c].ret[1].error.type = "AUTH_ERROR"]_vars
  /\ [](Finished("getToken") /\ Obs.ret[1].kind = "error"
          /\ Obs.ret[1].error # NoTokenError
        => /\ Count(Obs.log, "store") = 0
           /\ Count(Obs.log, "refresh") =
                (IF Obs.ret[1].error = NoRefreshTokenError THEN 0 ELSE 1))

\* C8 witness: the observed getToken() failed in its refresh exchange and the
\* record it read is still the stored one
C8_Witness ==
  /\ Finished("getToken")
  /\ Obs.ret[1].kind = "error"
  /\ Obs.ret[1].error.message = "Failed to refresh token"
  /\ getStoredTokenInfo(credentials) = Obs.tokenInfo

\* the step in which the observed caller calls storeToken
ObservedStores ==
  /\ calls' = calls + 1
  /\ call'[Observed].op = "storeToken"
  /\ call'[Observed].log[1].n = calls'

\* C9: storeToken(accessToken, expiresIn?, refreshToken?) replaces the whole
\* record: access_token; expires_at = now + expiresIn*1000 only when
\* expiresIn was given (and is not 0); refresh_token only when supplied;
\* nothing of the previous record.
C9_StoreTokenReplaces ==
  [][ObservedStores =>
       LET e == call'[Observed].log[1]
           stored == credentials'[TOKEN_INFO_KEY]
           hasExpiry == e.expiresIn # <<>> /\ e.expiresIn[1] # 0
       IN  /\ stored.kind = "json"
           /\ DOMAIN stored.obj =
                {"access_token"}
                \cup (IF hasExpiry THEN {"expires_at"} ELSE {})
                \cup (IF e.refreshToken # <<>> THEN {"refresh_token"} ELSE {})
           /\ stored.obj.access_token = e.accessToken
           /\ hasExpiry => stored.obj.expires_at = now + e.expiresIn[1] * 1000
           /\ e.refreshToken # <<>> => stored.obj.refresh_token = e.refreshToken[1]]_vars

\* C9 witness: storeToken(t1) alone over a record that had an expiry and a
\* refresh token left exactly {access_token: t1}
C9_Witness ==
  /\ Finished("storeToken")
  /\ Obs.log[1].expiresIn = <<>>
  /\ Obs.log[1].refreshToken = <<>>
  /\ Obs.log[1].replaced # <<>>
  /\ {"expires_at", "refresh_token"} \subseteq DOMAIN Obs.log[1].replaced[1]
  /\ getStoredTokenInfo(credentials) = <<[access_token |-> "t1"]>>

----------------------------------------------------------------------------
(* executeRequest: the history of the observed call *)

\* the classes of failure the claims speak of
Class401(e) == e.status = <<401>> \/ e.message \in {"Unauthorized", "401 Unauthorized"}
Class429(e) ==
  e.status = <<429>> \/ e.message \in {"rate limit exceeded", "API rate limit exceeded"}

IsRequest(e) == e.ev = "request"
IsSettled(e) == e.ev = "settled"

\* the invocations of fn by the observed call and how each settled, in order
Requests == SelectSeq(Obs.log, IsRequest)
Settlements == SelectSeq(Obs.log, IsSettled)

\* the history from the settling of the first invocation on
FirstSettled == CHOOSE i \in DOMAIN Obs.log : IsSettled(Obs.log[i])
                  /\ \A j \in 1..(i - 1) : ~IsSettled(Obs.log[j])
AfterFirst == SubSeq(Obs.log, FirstSettled + 1, Len(Obs.log))

TheStore(log) == log[CHOOSE i \in DOMAIN log : log[i].ev = "store"]

\* fn's first invocation failed with a 401-class error while the stored
\* record had a refresh token
FirstFailed401 ==
  /\ Finished("executeRequest")
  /\ Len(Settlements) >= 1
  /\ Settlements[1].outcome.kind = "error"
  /\ Class401(Settlements[1].outcome.error)
  /\ Settlements[1].stored # <<>>
  /\ "refresh_token" \in DOMAIN Settlements[1].stored[1]

\* C4 as claimed: after a 401-class first failure with a refresh token
\* stored, executeRequest sends exactly one refresh exchange and invokes fn
\* exactly once more with the new token of that exchange; if that invocation
\* succeeds its result is returned, fn having been invoked twice.
C4_RetryAfter401 ==
  FirstFailed401 =>
    /\ Count(AfterFirst, "refresh") = 1
    /\ Count(AfterFirst, "store") = 1
    /\ Len(Requests) = 2
    /\ Requests[2].token = TheStore(AfterFirst).access_token
    /\ Settlements[2].outcome.kind = "value"
         => Obs.ret[1] = Value(Settlements[2].outcome.value)

\* C4 amended: the 401-class error is not also 429-class; exactly one refresh
\* exchange is sent after the failure (getToken may have sent one before the
\* first invocation); if it succeeds fn is invoked exactly once more with its
\* new token, and the result of that invocation is returned when it
\* succeeds; if it fails fn is not invoked again and the refresh failure is
\* raised.
C4_RetryOnceAfterRefresh ==
  (FirstFailed401 /\ ~Class429(Settlements[1].outcome.error)) =>
    /\ Count(AfterFirst, "refresh") = 1
    /\ IF Count(AfterFirst, "store") = 1
         THEN /\ Len(Requests) = 2
              /\ Len(Settlements) = 2
              /\ Requests[2].token = TheStore(AfterFirst).access_token
              /\ Settlements[2].outcome.kind = "value"
                   => Obs.ret[1] = Value(Settlements[2].outcome.value)
         ELSE /\ Count(AfterFirst, "store") = 0
              /\ Len(Requests) = 1
              /\ Obs.ret[1].kind = "error"
              /\ Obs.ret[1].error.message = "Failed to refresh token"

\* C4 witness: the first invocation failed with a 401, the retry got the
\* refreshed token and its result was returned
C4_Witness ==
  /\ FirstFailed401
  /\ Len(Requests) = 2
  /\ Requests[2].token # Requests[1].token
  /\ Obs.ret[1] = Value(<<"success">>)

\* C5: when the invocation retried after the refresh fails too,
\* executeRequest raises an auth error that carries the failure as its cause,
\* not the raw error of fn, and fn is not invoked a third time.
C5_RetryFailureWrapped ==
  (/\ Finished("executeRequest")
   /\ Len(Settlements) = 2
   /\ Class401(Settlements[1].outcome.error)
   /\ Settlements[2].outcome.kind = "error")
  => /\ Len(Requests) = 2
     /\ Obs.ret[1].kind = "error"
     /\ Obs.ret[1].error.name = "PRAutomatorError"
     /\ Obs.ret[1].error.cause = <<Settlements[2].outcome.error>>

\* C6: whenever an invocation of fn fails with a 429-class error, backoffDelay
\* is doubled and executeRequest raises 'Rate limit exceeded' (RATE_LIMIT)
\* with that error as cause; no refresh exchange is sent and fn is not
\* invoked again.
C6_RateLimitSignal ==
  Finished("executeRequest") =>
    \A i \in DOMAIN Obs.log :
      (/\ IsSettled(Obs.log[i])
       /\ Obs.log[i].outcome.kind = "error"
       /\ Class429(Obs.log[i].outcome.error))
      => /\ Obs.ret[1] = Thrown(RateLimitError(Obs.log[i].outcome.error))
         /\ i < Len(Obs.log)
         /\ Obs.log[i + 1].ev = "backoff"
         /\ \A j \in (i + 1)..Len(Obs.log) :
              Obs.log[j].ev \notin {"refresh", "request"}

\* the events that change the governor's state
Governs(e) == e.ev \in {"reset", "backoff", "quota"}

\* C7: whenever executeRequest returns a result, it is the value
\* fn returned and backoffDelay is the base delay; backoff and quota are
\* changed only after fn has returned or failed.
C7_ResultAndReset ==
  (Finished("executeRequest") /\ Obs.ret[1].kind = "value") =>
    /\ Obs.ret[1] = Value(Settlements[Len(Settlements)].outcome.value)
    /\ backoffDelay = DEFAULT_BACKOFF
    /\ \A i \in DOMAIN Obs.log : Governs(Obs.log[i]) => i > FirstSettled

\* what does hold of a returned result: it is the value fn returned; when it
\* is the first invocation that succeeded the call has set backoffDelay back
\* to the base delay after fn returned; when the result is that of the
\* invocation retried after a 401 the call changes neither backoff nor quota;
\* a change of backoff or quota never precedes the settling of fn.
ResetAfterFirstSuccess ==
  (Finished("executeRequest") /\ Obs.ret[1].kind = "value") =>
    /\ Obs.ret[1] = Value(Settlements[Len(Settlements)].outcome.value)
    /\ IF Settlements[1].outcome.kind = "value"
         THEN /\ Obs.log[FirstSettled + 1].ev = "reset"
              /\ Obs.log[FirstSettled + 1].backoffDelay = DEFAULT_BACKOFF
              /\ backoffDelay = DEFAULT_BACKOFF
         ELSE \A i \in DOMAIN Obs.log : ~Governs(Obs.log[i])
    /\ \A i \in DOMAIN Obs.log : Governs(Obs.log[i]) => i > FirstSettled

\* a result returned from the retried invocation while the backoff stands
\* doubled
RetriedResultUnderBackoff ==
  /\ Finished("executeRequest")
  /\ Obs.ret[1].kind = "value"
  /\ Len(Settlements) = 2
  /\ backoffDelay = 2 * DEFAULT_BACKOFF

----------------------------------------------------------------------------
(* poll() *)

\* the last call on the flow was poll() and it has settled
Polled == flow.op = "poll" /\ flow.pc = "idle" /\ flow.ret # <<>>

\* every token request of the settled poll() was answered authorization_pending
OnlyPending ==
  /\ Polled
  /\ flow.requests >= 1
  /\ flow.onlyPending
  /\ flow.pendings = flow.requests

\* C10: if the token endpoint answers authorization_pending to every request,
\* poll() sends exactly maxAttempts token requests (12 unless the options
\* give another), sleeps one poll interval after each, then raises the
\* timeout error; no token is stored.
C10_PendingTimesOut ==
  OnlyPending =>
    /\ flow.requests = flow.maxAttempts
    /\ ~TruthyNum(Field(flow.options, "maxAttempts")) => flow.requests = 12
    /\ TruthyNum(Field(flow.options, "maxAttempts"))
         => flow.requests = flow.options.maxAttempts
    /\ flow.sleeps = flow.requests
    /\ flow.slept = flow.requests * flow.pollInterval
    /\ now >= flow.startedAt + flow.slept
    /\ flow.ret[1].kind = "error"
    /\ flow.ret[1].error.name = "PRAutomatorError"
    /\ flow.ret[1].error.message \in
         {"Authentication timeout. Please try again.",
          "Max polling attempts reached. Please try again."}
    /\ credentials = flow.before

\* C10 witness: a poll() with the default maxAttempts, answered
\* authorization_pending twelve times, has raised the timeout
C10_Witness ==
  /\ OnlyPending
  /\ flow.options = <<>>
  /\ flow.pendings = 12
  /\ flow.ret[1] = Thrown(TimeoutError(flow))

\* a step in which poll() sends a token request, and one in which it goes
\* to sleep
SendsTokenRequest ==
  /\ flow'.op = "poll"
  /\ flow'.pc = "poll_fetch"
  /\ flow.pc # "poll_fetch" \/ flow'.requests > flow.requests

StartsSleep == flow'.pc = "poll_sleep" /\ flow.pc # "poll_sleep"

\* the deadline of the device code held: the time of the last successful
\* initiate() + expires_in*1000
Deadline(f) == f.granted[1].at + f.granted[1].data.expires_in * 1000

\* C11: poll() never sends a token request after the deadline of the device
\* code and never sleeps past it.
C11_PollStopsByDeadline ==
  [][/\ SendsTokenRequest => now' <= Deadline(flow')
     /\ StartsSleep => flow'.wakeAt <= Deadline(flow')]_vars

\* C12: when the token endpoint answers with a terminal error code, poll()
\* raises an auth error at once: no sleep and no further token request.
C12_TerminalErrorStopsPoll ==
  (flow.op = "poll" /\ flow.last = "terminal") =>
    /\ flow.pc = "idle"
    /\ flow.ret # <<>>
    /\ flow.ret[1].kind = "error"
    /\ flow.ret[1].error.name = "PRAutomatorError"

\* the settled poll() was answered authorization_pending some k times and
\* then success
PendingThenSuccess ==
  /\ flow.op = "poll"
  /\ flow.last = "success"
  /\ flow.onlyPending
  /\ flow.pc = "idle"

\* the access token is in the credential store: in the record of the
\* TokenManager, or under "github_token"
Persisted(token) ==
  IF flow.impl = "device-flow"
    THEN /\ getStoredTokenInfo(credentials) # <<>>
         /\ Field(getStoredTokenInfo(credentials)[1], "access_token") = token
    ELSE /\ GITHUB_TOKEN_KEY \in DOMAIN credentials
         /\ credentials[GITHUB_TOKEN_KEY] = token

\* what C13 says of a poll() answered pending k times and then success
SucceedsAfterPending ==
  /\ flow.requests = flow.pendings + 1
  /\ flow.sleeps = flow.pendings
  /\ flow.pendings < flow.maxAttempts
  /\ flow.ret # <<>>
  /\ flow.ret[1].kind = "value"
  /\ Persisted(Field(flow.data[1], "access_token"))

\* a pending answer is never surfaced: while it is the last answer poll()
\* is asleep
PendingNotSurfaced ==
  (flow.op = "poll" /\ flow.last = "pending")
    => flow.pc = "poll_sleep" /\ flow.ret = <<>>

\* C13 as claimed: answered authorization_pending k times and then success
\* with a token, poll() has sent exactly k+1 token requests, persisted the
\* token and returned without error; pending is never surfaced as an error.
C13_SuccessAfterPending ==
  /\ PendingThenSuccess => SucceedsAfterPending
  /\ PendingNotSurfaced

\* C13 amended: the same, where for the client of device-flow.ts the
\* verification of the token has succeeded.
C13_SuccessAfterPendingVerified ==
  /\ (PendingThenSuccess
        /\ (flow.impl = "device-flow" => flow.verified = <<TRUE>>))
       => SucceedsAfterPending
  /\ PendingNotSurfaced

\* C13 witness: two pending answers, then a token that is now stored
C13_Witness ==
  /\ PendingThenSuccess
  /\ flow.pendings = 2
  /\ flow.requests = 3
  /\ Persisted(<<"a2">>)

\* C14: when the verification of a newly obtained token fails, poll() has
\* raised 'Invalid access token' at once: the token was not stored, the
\* credential store is as it was when poll() began, and no token request
\* followed the one that was answered with the token.
C14_InvalidTokenNotStored ==
  (flow.op = "poll" /\ flow.verified = <<FALSE>>) =>
    /\ flow.pc = "idle"
    /\ flow.ret # <<>>
    /\ flow.ret[1].kind = "error"
    /\ flow.ret[1].error.name = "PRAutomatorError"
    /\ flow.ret[1].error.message = "Invalid access token"
    /\ flow.last = "success"
    /\ flow.requests = flow.answers
    /\ credentials = flow.before

\* C14 witness: a token obtained at the second request failed verification
C14_Witness ==
  /\ flow.op = "poll"
  /\ flow.verified = <<FALSE>>
  /\ flow.requests = 2
  /\ credentials = <<>>

\* the step in which poll() is called
StartsPoll == flow.pc = "idle" /\ flow'.op = "poll" /\ calls' = calls + 1

FailedBeforeLoop(error) ==
  /\ flow'.pc = "idle"
  /\ flow'.ret = <<Thrown(error)>>
  /\ flow'.requests = 0
  /\ flow'.sleeps = 0
  /\ flow'.slept = 0
  /\ credentials' = credentials
  /\ now' = now

\* C15: poll() without a prior successful initiate() raises the
\* not-initiated error, and poll() when now > expiresAt raises the expired
\* error; in both cases no token request is sent, no sleep happens and the
\* credential store is unchanged; otherwise poll() sends its first request.
C15_PollPreconditions ==
  [][StartsPoll =>
       IF flow.granted = <<>>
         THEN FailedBeforeLoop(NotInitiatedError(flow))
       ELSE IF now > Deadline(flow)
         THEN FailedBeforeLoop(ExpiredError(flow))
       ELSE flow'.pc = "poll_fetch" /\ flow'.requests = 1]_vars

\* C15 witness: poll() called after the deadline has raised the expired
\* error without a request
C15_Witness ==
  /\ Polled
  /\ flow.granted # <<>>
  /\ flow.startedAt > Deadline(flow)
  /\ flow.ret[1] = Thrown(ExpiredError(flow))
  /\ flow.requests = 0

----------------------------------------------------------------------------
(* initiate() *)

\* the scopes joined by single spaces
SpaceJoined(scopes) ==
  CASE Len(scopes) = 0 -> ""
    [] Len(scopes) = 1 -> scopes[1]
    [] Len(scopes) = 2 -> scopes[1] \o " " \o scopes[2]
    [] Len(scopes) = 3 -> scopes[1] \o " " \o scopes[2] \o " " \o scopes[3]

\* the step in which the device-code request of initiate() settles
InitiateSettles == flow.pc = "initiate_fetch" /\ flow'.pc = "idle"

----------------------------------------------------------------------------
(* revoke() *)

\* a revoke() of the client of device-flow.ts has returned or raised
RevokeDone == Finished("revoke")

\* a revoke() of the client of github-device-flow.ts has returned or raised
RevokeGitHubDone ==
  flow.op = "revoke" /\ flow.pc = "idle" /\ flow.ret # <<>>

\* revoke() of github-device-flow.ts with nothing under "github_token" sends
\* no request, leaves the vault alone and returns
RevokeGitHubIdempotent ==
  (RevokeGitHubDone /\ getSecret(flow.before, GITHUB_TOKEN_KEY) = <<>>)
    => /\ flow.ret[1].kind = "value"
       /\ flow.requests = 0
       /\ credentials = flow.before

\* C17: revoke() called when no token is stored (also right after a
\* successful revoke()) sends no network request, leaves the credential
\* store as it was and does not raise
C17_RevokeIdempotent ==
  /\ RevokeGitHubIdempotent
  /\ (RevokeDone /\ Obs.log[1].stored = <<>>)
       => /\ Obs.ret[1].kind = "value"
          /\ Requests = <<>>
          /\ credentials = <<>>

\* the error either client raises for a revoke request answered non-success
RevokeFailed(outcome) ==
  /\ outcome.kind = "error"
  /\ outcome.error.message \in
       {"Token revocation failed: " \o text : text \in StatusTexts}
       \cup {"Failed to revoke GitHub token: Failed to revoke token: " \o text :
               text \in StatusTexts}

\* revoke() of github-device-flow.ts removes the token when the DELETE
\* answered ok, and when it answered otherwise raises and keeps the vault as
\* it was
RevokeGitHubClears ==
  (RevokeGitHubDone /\ flow.last \in {"success", "failure"})
    => IF flow.last = "success"
         THEN /\ flow.ret[1].kind = "value"
              /\ GITHUB_TOKEN_KEY \notin DOMAIN credentials
         ELSE /\ RevokeFailed(flow.ret[1])
              /\ credentials = flow.before

\* the answer to the revoke request of the finished call: the settlement of
\* its only invocation of fn
RevokeAnswer == Settlements[1].outcome

\* the request was answered, with success or not, rather than never made
RevokeAnswered ==
  /\ RevokeDone
  /\ Len(Settlements) >= 1
  /\ RevokeAnswer.kind = "error" => RevokeAnswer.error.message # "network error"

\* C18: after a revoke() whose request answered success no token record
\* remains in the credential store; after one whose request answered
\* non-success revoke() has raised the revoke-failed error and the stored
\* record is what it was before the call
C18_RevokeClearsOnSuccess ==
  /\ RevokeGitHubClears
  /\ RevokeAnswered
       => IF RevokeAnswer.kind = "value"
            THEN /\ Obs.ret[1].kind = "value"
                 /\ TOKEN_INFO_KEY \notin DOMAIN credentials
            ELSE /\ RevokeFailed(Obs.ret[1])
                 /\ VaultGet(credentials, TOKEN_INFO_KEY) = Obs.log[1].stored

----------------------------------------------------------------------------
(* backoffDelay *)

\* the observed executeRequest after this step, and whether in this step
\* an invocation of its request function settled, and how
ObsNext == call'[Observed]

JustSettled ==
  /\ ObsNext.op = "executeRequest"
  /\ Len(ObsNext.log) > Len(Obs.log)
  /\ ObsNext.log[Len(Obs.log) + 1].ev = "settled"

JustOutcome == ObsNext.log[Len(Obs.log) + 1].outcome

DoubledOnRateLimit ==
  /\ JustSettled
  /\ JustOutcome.kind = "error"
  /\ Class429(JustOutcome.error)
  /\ backoffDelay' = backoffDelay * 2

\* the request that completed is the first of its call, so the call met
\* neither a rate limit nor an auth error
ResetOnCleanSuccess ==
  /\ JustSettled
  /\ JustOutcome.kind = "value"
  /\ Settlements = <<>>
  /\ backoffDelay' = DEFAULT_BACKOFF

\* C19: backoffDelay changes only by doubling, in a step where a request
\* ended with a rate-limit signal, or by going back to DEFAULT_BACKOFF, in a
\* step where a request completed that met neither a rate limit nor an auth
\* error; it is never below DEFAULT_BACKOFF, and no step of getToken,
\* storeToken or a refresh changes it
C19_BackoffChanges ==
  /\ [](backoffDelay >= DEFAULT_BACKOFF)
  /\ [][backoffDelay' # backoffDelay
          => (DoubledOnRateLimit \/ ResetOnCleanSuccess)]_vars

\* a call that met a rate limit with the delay already doubled has returned,
\* and the delay is doubled again
C19_Witness ==
  /\ Finished("executeRequest")
  /\ Len(Settlements) = 1
  /\ Settlements[1].outcome.kind = "error"
  /\ Class429(Settlements[1].outcome.error)
  /\ backoffDelay = 4 * DEFAULT_BACKOFF

\* the ceiling of the delay: the source defines none, and any value below
\* the horizon of the model shows the same
MAX_BACKOFF == MaxBackoff \div 2

Minimum(a, b) == IF a < b THEN a ELSE b

\* C20: after a rate-limit signal backoffDelay is
\* min(previous * 2, MAX_BACKOFF), and it never exceeds MAX_BACKOFF
C20_BackoffBounded ==
  /\ [](backoffDelay <= MAX_BACKOFF)
  /\ [][(JustSettled /\ JustOutcome.kind = "error"
          /\ Class429(JustOutcome.error) /\ Settlements = <<>>)
          => backoffDelay' = Minimum(backoffDelay * 2, MAX_BACKOFF)]_vars

----------------------------------------------------------------------------
(* waitForRateLimit *)

\* the observed executeRequest is inside one of the sleeps of
\* waitForRateLimit
Suspended == Obs.pc \in {"waitForRateLimit_224", "waitForRateLimit_234"}

\* the step in which the observed executeRequest leaves waitForRateLimit:
\* the call itself when it does not sleep, or the end of its last sleep
SuspensionEnds ==
  /\ ObsNext.op = "executeRequest"
  /\ Suspended \/ (Obs.pc = "idle" /\ calls' # calls)
  /\ ObsNext.log # <<>>
  /\ ObsNext.log[1].ev = "waited"

\* when the call entered waitForRateLimit, and when the sleep it is in was
\* asked to end
StartedAt == IF Suspended THEN Obs.suspendedAt[1] ELSE now
ScheduledEnd == IF Suspended THEN Obs.wakeAt ELSE now

ResetAt == rateLimitInfo[1].reset * 1000

Exhausted(t) ==
  rateLimitInfo # <<>> /\ rateLimitInfo[1].remaining = 0 /\ t < ResetAt

BackoffWait(t) == Later(0, backoffDelay - (t - lastRequest))

\* the wait duration as the claim gives it
waitDuration(t) == IF Exhausted(t) THEN ResetAt - t ELSE BackoffWait(t)

\* C21 as stated: the time executeRequest is suspended before it obtains the
\* token is the wait duration, resetAt - now with an exhausted quota whose
\* reset is ahead and max(0, backoffDelay - (now - lastRequest)) otherwise,
\* and the suspension ends
C21_SuspensionIsWaitDuration ==
  /\ [][SuspensionEnds
          => ScheduledEnd - StartedAt = waitDuration(StartedAt)]_vars
  /\ (Suspended ~> ~Suspended)

\* C21 amended: executeRequest sleeps for the rest of the backoff delay and
\* then, if the quota is exhausted and its reset still ahead, until the
\* reset.  Without an exhausted quota the suspension is
\* max(0, backoffDelay - (now - lastRequest)); with one it ends no earlier
\* than the reset and no earlier than the backoff delay, and is asked to
\* end no later than the later of the two; the suspension ends
C21_SuspensionCoversBothWaits ==
  /\ [][SuspensionEnds
          => LET t == StartedAt
             IN  /\ now' >= t + BackoffWait(t)
                 /\ ~Exhausted(t) => ScheduledEnd = t + BackoffWait(t)
                 /\ Exhausted(t)
                      => /\ ScheduledEnd \in {ResetAt, t + BackoffWait(t)}
                         /\ now' >= ResetAt]_vars
  /\ (Suspended ~> ~Suspended)

\* the call sleeps for the backoff delay past the reset of an exhausted
\* quota
C21_Witness ==
  /\ Obs.op = "executeRequest"
  /\ Obs.pc = "waitForRateLimit_224"
  /\ Exhausted(Obs.suspendedAt[1])
  /\ Obs.wakeAt > ResetAt

----------------------------------------------------------------------------
(* errors of neither class *)

\* the request function failed with an error that is neither 401-class nor
\* 429-class
OtherFailure(outcome) ==
  /\ outcome.kind = "error"
  /\ ~Class401(outcome.error)
  /\ ~Class429(outcome.error)

\* no refresh exchange was sent by the observed call after it first invoked
\* its request function
NoRefreshAfterRequest ==
  \A i, j \in DOMAIN Obs.log :
    (IsRequest(Obs.log[i]) /\ i < j) => Obs.log[j].ev # "refresh"

\* C22: when the request function fails with an error that is neither
\* 401-class nor 429-class, executeRequest raises that same error, the
\* function has been invoked exactly once and no refresh exchange follows;
\* the step in which it fails leaves backoffDelay, the quota snapshot and
\* the stored token record as they were
C22_OtherErrorPropagates ==
  /\ []((Finished("executeRequest") /\ Settlements # <<>>
           /\ OtherFailure(Settlements[1].outcome))
         => /\ Obs.ret[1] = Settlements[1].outcome
            /\ Len(Requests) = 1
            /\ Len(Settlements) = 1
            /\ NoRefreshAfterRequest)
  /\ [][(JustSettled /\ Settlements = <<>> /\ OtherFailure(JustOutcome))
          => /\ ObsNext.pc = "idle"
             /\ ObsNext.ret = <<JustOutcome>>
             /\ backoffDelay' = backoffDelay
             /\ rateLimitInfo' = rateLimitInfo
             /\ credentials' = credentials]_vars

\* a request failed with a server error while the delay was doubled and a
\* token record stored, and the call has raised it
C22_Witness ==
  /\ Finished("executeRequest")
  /\ Settlements # <<>>
  /\ OtherFailure(Settlements[1].outcome)
  /\ Obs.ret[1] = Thrown(Error("Server Error", <<500>>))
  /\ backoffDelay = 2 * DEFAULT_BACKOFF
  /\ getStoredTokenInfo(credentials) # <<>>

----------------------------------------------------------------------------
(* the device authorization held *)

\* a poll() has returned or raised
PollTerminated == flow.op = "poll" /\ flow.pc = "idle" /\ flow.ret # <<>>

\* C23: the device authorization is dropped the moment poll() terminates,
\* by success or by any error, so a poll() that follows a poll() raises the
\* not-initiated error and sends no request; an initiate() that succeeds
\* replaces the authorization held
C23_AuthorizationDropped ==
  /\ [](PollTerminated => flow.deviceCode = <<>>)
  /\ []((flow.op = "initiate" /\ flow.pc = "idle" /\ flow.last = "success")
         => flow.deviceCode = <<flow.granted[1].data.device_code>>)
  /\ [][(StartsPoll /\ flow.op = "poll")
          => FailedBeforeLoop(NotInitiatedError(flow))]_vars

\* the last part on its own: a poll() that follows a finished poll() sends
\* no token request (the clients do send one, for the device code still held)
RepollSendsNothing ==
  [][(StartsPoll /\ flow.op = "poll") => flow'.pc # "poll_fetch"]_vars

----------------------------------------------------------------------------
(* the poll interval *)

\* the step in which a token request of poll() is answered with this kind
AnswersWith(kind) ==
  /\ flow.pc = "poll_fetch"
  /\ flow'.answers = flow.answers + 1
  /\ flow'.last = kind

\* initiate() has set the poll interval to interval*1000 of the device-code
\* response
IntervalFromServer ==
  (flow.op = "initiate" /\ flow.pc = "idle" /\ flow.last = "success")
    => flow.pollInterval = flow.granted[1].data.interval * 1000

\* slow_down makes poll() raise the interval, sleep and go on
SlowDownRaisesInterval ==
  [][AnswersWith("slow_down")
       => /\ flow'.pollInterval > flow.pollInterval
          /\ flow'.pc = "poll_sleep"]_vars

\* C24: initiate() sets the poll interval to interval*1000 of the
\* device-code response; on slow_down poll() increases the interval before
\* the next sleep and keeps polling, without raising; the interval never
\* decreases during one poll()
C24_IntervalFollowsServer ==
  /\ []IntervalFromServer
  /\ SlowDownRaisesInterval
  /\ [][(flow.op = "poll" /\ flow'.op = "poll" /\ calls' = calls)
          => flow'.pollInterval >= flow.pollInterval]_vars

----------------------------------------------------------------------------
(* the stored token record *)

\* where the two clients keep the token
TokenKeys == {TOKEN_INFO_KEY, GITHUB_TOKEN_KEY}

\* the steps that may write the record: storeToken called by the
\* application, the end of a poll() that returns, and a refresh exchange
\* that succeeded
StoreTokenCalled ==
  Obs.pc = "idle" /\ calls' # calls /\ ObsNext.op = "storeToken"

PollReturns ==
  /\ flow.op = "poll"
  /\ flow.pc \in {"poll_fetch", "verifyToken_fetch"}
  /\ flow'.pc = "idle"
  /\ flow'.ret[1].kind = "value"

RefreshStores ==
  /\ Obs.pc = "refreshToken_152"
  /\ Len(ObsNext.log) > Len(Obs.log)
  /\ ObsNext.log[Len(Obs.log) + 1].ev = "store"

\* the step in which a revoke request is answered with success
RevokeSucceeds ==
  \/ flow.pc = "revoke_fetch" /\ flow'.last = "success"
  \/ /\ Obs.op = "revoke"
     /\ Obs.pc \in {"executeRequest_83_await", "executeRequest_105_await"}
     /\ Len(ObsNext.log) > Len(Obs.log)
     /\ ObsNext.log[Len(Obs.log) + 1].ev = "settled"
     /\ ObsNext.log[Len(Obs.log) + 1].outcome.kind = "value"

\* C25: the stored token record is written only by storeToken, called
\* directly, by a poll() that succeeded or by a refresh that succeeded, and
\* is removed only by a revoke() that succeeded; every other step, of
\* getToken, of executeRequest, of initiate() and of any operation that
\* fails, leaves it as it was, so a record that exists stays until a
\* revoke() succeeds
C25_RecordFrame ==
  [][\A key \in TokenKeys :
       LET before == VaultGet(credentials, key)
           after == VaultGet(credentials', key)
       IN  after # before
             => IF after = <<>> THEN RevokeSucceeds
                ELSE StoreTokenCalled \/ PollReturns \/ RefreshStores]_vars

\* a poll() has stored a verified token and an executeRequest that followed
\* has failed; the record is still there
C25_Witness ==
  /\ flow.op = "poll"
  /\ flow.verified = <<TRUE>>
  /\ Finished("executeRequest")
  /\ Obs.ret[1].kind = "error"
  /\ getStoredTokenInfo(credentials) # <<>>
  /\ getStoredTokenInfo(credentials)[1].access_token = flow.data[1].access_token

----------------------------------------------------------------------------
(* where the access token goes *)

\* the access tokens of the model
AccessTokens == StoredAccessTokens \cup {"n1", "n2", "a1", "a2"}

\* the texts an error carries: its message and the message of its cause
ErrorTexts(outcome) ==
  IF outcome.kind # "error" THEN {}
  ELSE {outcome.error.message}
       \cup (IF outcome.error.cause = <<>> THEN {}
             ELSE {outcome.error.cause[1].message})

PrintedParts ==
  UNION {{flow.printed[i].parts[j] : j \in DOMAIN flow.printed[i].parts} :
           i \in DOMAIN flow.printed}

\* C26: the access token is in no error raised by the TokenManager or the
\* device flow, neither in its message nor in its cause, and the login
\* command never prints it
C26_TokenNotObservable ==
  /\ \A c \in Callers :
       call[c].ret # <<>> => ErrorTexts(call[c].ret[1]) \cap AccessTokens = {}
  /\ flow.ret # <<>> => ErrorTexts(flow.ret[1]) \cap AccessTokens = {}
  /\ PrintedParts \cap AccessTokens = {}

\* the first two parts on their own: no error carries the token
ErrorsCarryNoToken ==
  /\ \A c \in Callers :
       call[c].ret # <<>> => ErrorTexts(call[c].ret[1]) \cap AccessTokens = {}
  /\ flow.ret # <<>> => ErrorTexts(flow.ret[1]) \cap AccessTokens = {}

----------------------------------------------------------------------------
(* request spacing *)

Waiting(rec) == rec.pc \in {"waitForRateLimit_224", "waitForRateLimit_234"}

\* the step in which an executeRequest of caller c leaves waitForRateLimit
\* and records its request time, on its way to the request function
GatePassed(c) ==
  /\ call'[c] # call[c]
  /\ call'[c].op = "executeRequest"
  /\ ~Waiting(call'[c])
  /\ Waiting(call[c]) \/ (call[c].pc = "idle" /\ calls' # calls)

\* C27: whatever the sequence or interleaving of executeRequest calls, a
\* call goes on to its request function no earlier than backoffDelay after
\* the request time recorded before it, where backoffDelay is double what
\* it was each time the last request met a rate limit
C27_RequestSpacing ==
  [][\A c \in Callers :
       GatePassed(c) => now' >= lastRequest + backoffDelay]_vars

\* the same for calls made one after the other: no other call is in
\* progress when the call leaves waitForRateLimit
SpacingInSequence ==
  [][\A c \in Callers :
       (GatePassed(c) /\ \A d \in Callers \ {c} : call[d].pc = "idle")
         => now' >= lastRequest + backoffDelay]_vars

----------------------------------------------------------------------------
(* termination of poll() *)

\* a token request of poll() is answered and the call goes on
IterationGoesOn ==
  /\ flow.op = "poll"
  /\ flow.pc = "poll_fetch"
  /\ flow'.answers = flow.answers + 1
  /\ flow'.pc \notin {"idle", "verifyToken_fetch"}

\* C28: whatever the token endpoint does, poll() sends at most maxAttempts
\* token requests, and every iteration of its loop that does not end the
\* call sleeps one poll interval and counts one attempt, so that no
\* iteration repeats without progress and the call ends
C28_PollBounded ==
  /\ [](flow.op = "poll" => flow.requests <= flow.maxAttempts)
  /\ [][IterationGoesOn
          => /\ flow'.pc = "poll_sleep"
             /\ flow'.wakeAt = now + flow.pollInterval]_vars
  /\ [][(flow.op = "poll" /\ flow.pc = "poll_sleep" /\ flow'.pc # "poll_sleep")
          => flow'.attempts = flow.attempts + 1]_vars

\* the same for the client of device-flow.ts alone
PollBoundedDeviceFlow ==
  /\ []((flow.impl = "device-flow" /\ flow.op = "poll")
          => flow.requests <= flow.maxAttempts)
  /\ [][(flow.impl = "device-flow" /\ IterationGoesOn)
          => flow'.pc = "poll_sleep"]_vars

----------------------------------------------------------------------------
(* the record a refresh leaves *)

\* the step in which the refresh exchange of a getToken() call succeeds
RefreshSucceeds(c) ==
  /\ call[c].op = "getToken"
  /\ call[c].pc = "refreshToken_152"
  /\ call'[c].pc = "idle"
  /\ call'[c].ret[1].kind = "value"

\* the stored record is the one storeToken makes of this response at time t
RecordOfResponse(stored, data, t) ==
  /\ stored.access_token = data.access_token
  /\ "refresh_token" \in DOMAIN stored <=> "refresh_token" \in DOMAIN data
  /\ "refresh_token" \in DOMAIN data
       => stored.refresh_token = data.refresh_token
  /\ "expires_at" \in DOMAIN stored <=> "expires_in" \in DOMAIN data
  /\ "expires_in" \in DOMAIN data
       => stored.expires_at = t + data.expires_in * 1000

\* the step in which a getToken() call decides on the record it read
GetTokenDecides(c) ==
  /\ call[c].op = "getToken"
  /\ call[c].pc = "getToken_43"
  /\ call'[c] # call[c]

\* C29: after a successful refresh the stored refresh_token and expires_at
\* are exactly those of the refresh response, nothing of the previous record
\* is carried over.  A getToken() that reads a record without refresh_token
\* never sends a refresh request: where a refresh is due it raises 'No
\* refresh token available' and leaves the record.  A getToken() that reads
\* a record without expires_at returns its access token and never refreshes.
C29_RefreshReplacesRecord ==
  /\ [][\A c \in Callers :
          RefreshSucceeds(c) =>
            \E response \in RefreshResponses :
              /\ response.kind = "json" /\ response.ok
              /\ call'[c].ret[1].value = <<response.data.access_token>>
              /\ getStoredTokenInfo(credentials') # <<>>
              /\ RecordOfResponse(getStoredTokenInfo(credentials')[1],
                                  response.data, now)]_vars
  /\ [][\A c \in Callers :
          (GetTokenDecides(c)
             /\ "refresh_token" \notin DOMAIN call[c].tokenInfo[1]) =>
            /\ call'[c].pc = "idle"
            /\ credentials' = credentials
            /\ IF /\ "expires_at" \in DOMAIN call[c].tokenInfo[1]
                  /\ now + MIN_TOKEN_LIFETIME > call[c].tokenInfo[1].expires_at
                 THEN call'[c].ret[1] = Thrown(NoRefreshTokenError)
                 ELSE call'[c].ret[1] =
                        Value(<<call[c].tokenInfo[1].access_token>>)]_vars
  /\ [][\A c \in Callers :
          (GetTokenDecides(c)
             /\ "expires_at" \notin DOMAIN call[c].tokenInfo[1]) =>
            /\ call'[c].pc = "idle"
            /\ credentials' = credentials
            /\ call'[c].ret[1] =
                 Value(<<call[c].tokenInfo[1].access_token>>)]_vars

\* C29 witness: a refresh answered without refresh_token left the record
\* {access_token: n2, expires_at}, and the observed getToken() that read it
\* afterwards failed with 'No refresh token available'
C29_Witness ==
  /\ Finished("getToken")
  /\ Obs.ret[1] = Thrown(NoRefreshTokenError)
  /\ Obs.tokenInfo # <<>>
  /\ DOMAIN Obs.tokenInfo[1] = {"access_token", "expires_at"}
  /\ Obs.tokenInfo[1].access_token = "n2"
  /\ getStoredTokenInfo(credentials) = Obs.tokenInfo

\* a refresh answered without expires_in left {access_token: n2,
\* refresh_token: r2}, and the observed getToken() returned n2 from it
RefreshedWithoutExpiry ==
  /\ Finished("getToken")
  /\ Obs.ret[1] = Value(<<"n2">>)
  /\ Count(Obs.log, "refresh") = 0
  /\ Obs.tokenInfo = <<[access_token |-> "n2", refresh_token |-> "r2"]>>

----------------------------------------------------------------------------
(* the thresholds of expiresIn *)

\* the moments from now on
LaterTimes == {now + k * TickMs : k \in 0..MaxTicks}

\* what a getToken() that reads the record stored by this step decides when
\* its expiry check is made at time t
DecisionOn(t) ==
  LET sh == [Shared EXCEPT !.credentials = credentials']
      read == getToken(NewCall(Observed, "getToken"), sh, "top")
  IN  getToken_43(read.call, sh, t)

\* the call went for a refresh: its exchange is under way, or it was refused
\* for want of a refresh token
AttemptsRefresh(rec) ==
  \/ rec.pc = "refreshToken_152"
  \/ rec.pc = "idle" /\ rec.ret[1] = Thrown(NoRefreshTokenError)

\* C30: storeToken with expiresIn = 0 stores a record without expires_at,
\* and getToken() returns the token of such a record at any later time
\* without a refresh; with every expiresIn >= 1 it stores expires_at = now +
\* expiresIn * 1000; with 1 <= expiresIn < 300 a getToken() that reads the
\* record, at once or later, goes for a refresh and does not return the
\* stored token.
C30_ExpiresInBoundary ==
  /\ [][now' >= now]_vars
  /\ [][ObservedStores =>
         LET e == call'[Observed].log[1]
             stored == credentials'[TOKEN_INFO_KEY].obj
         IN  /\ e.expiresIn = <<0>> =>
                  /\ "expires_at" \notin DOMAIN stored
                  /\ \A t \in LaterTimes :
                       /\ DecisionOn(t).call.pc = "idle"
                       /\ DecisionOn(t).call.ret[1] = Value(<<e.accessToken>>)
                       /\ DecisionOn(t).sh.credentials = credentials'
             /\ (e.expiresIn # <<>> /\ e.expiresIn[1] >= 1) =>
                  /\ "expires_at" \in DOMAIN stored
                  /\ stored.expires_at = now + e.expiresIn[1] * 1000
             /\ (e.expiresIn # <<>> /\ e.expiresIn[1] >= 1
                   /\ e.expiresIn[1] < 300) =>
                  \A t \in LaterTimes : AttemptsRefresh(DecisionOn(t).call)]_vars
  /\ [][\A c \in Callers :
          GetTokenDecides(c) =>
            IF /\ "expires_at" \in DOMAIN call[c].tokenInfo[1]
               /\ call[c].tokenInfo[1].expires_at < now + MIN_TOKEN_LIFETIME
              THEN AttemptsRefresh(call'[c])
              ELSE /\ call'[c].pc = "idle"
                   /\ call'[c].ret[1] =
                        Value(<<call[c].tokenInfo[1].access_token>>)]_vars

\* C30 witness: a token stored with expiresIn = 299 was read in the same
\* instant by the observed getToken(), which sent a refresh exchange
C30_Witness ==
  /\ Finished("getToken")
  /\ Obs.tokenInfo # <<>>
  /\ "expires_at" \in DOMAIN Obs.tokenInfo[1]
  /\ Obs.tokenInfo[1].access_token = "t1"
  /\ Obs.tokenInfo[1].expires_at = Obs.checkedAt + 299 * 1000
  /\ Count(Obs.log, "refresh") = 1

\* a token stored with expiresIn = 0 was returned by the observed getToken()
\* two ticks after it was stored
ZeroLifetimeReturned ==
  /\ Finished("getToken")
  /\ Obs.tokenInfo = <<[access_token |-> "t1"]>>
  /\ Obs.ret[1] = Value(<<"t1">>)
  /\ Obs.checkedAt = StartTime + MaxTicks * TickMs

====
